---- MODULE Spec2Model ----
(***************************************************************************)
(* Risk-gated execution engine of auto_trade (src/trading/execution.rs).   *)
(*                                                                         *)
(* The state is the TradeExecutor's shared tables (positions, trades,      *)
(* risk_params, daily_pnl, trade_count), the execute_signal calls in       *)
(* flight, the Position Monitor task and the exchange's order counter.     *)
(* Every std::sync::Mutex critical section of the source is one step;      *)
(* every .await is a point where the other tasks may run.  The local step  *)
(* that follows an await's return (a status test, building the order) is   *)
(* joined to the critical section or the exchange call it leads to.        *)
(*                                                                         *)
(* Prices are integers chosen so that the percent arithmetic of            *)
(* stop-loss / take-profit is exact; order quantities are counted in       *)
(* units of 10^-5 (the engine's truncation precision).                     *)
(***************************************************************************)
EXTENDS Integers, Sequences, FiniteSets, TLC

\* ------------------------------------------------------------------ bounds
\* Orders the exchange receives in one behaviour (signal and monitor orders).
MaxOrders == 2

\* Seconds the clock advances in one behaviour.
MaxElapsed == 900
\* Orders the SignalProcessor sends in one behaviour.
MaxSends == 3

\* Candles of a history.
MaxCandles == 7

\* Orders the exchange receives in one behaviour that starts with two Positions open:
\* their two entries and the close orders of the Position Monitor.
MaxMonitorOrders == 4

\* Prices of a series an indicator is computed on, and the longest period.
MaxPrices == 5
MaxPeriod == 3

\* Candles of a window handed to a pattern detector.
MaxWindow == 10

\* max_history_size of a MarketDataManager, and the updates it receives.
MaxHistory == 2
MaxUpdates == 4

\* Orders the exchange receives in a behaviour that starts with a Position open.
MaxCloseOrders == 4


\* the threads that poll the engine's tasks: 1 .. MaxWorkers of them
MaxWorkers == 2

\* broadcast::channel(100) of MarketDataProcessor::new
BroadcastCapacity == 100

\* evaluation loops one SignalProcessor spawns
MaxLoops == 3
\* -------------------------------------------------------- program constants
\* SignalProcessor::new: signal_cooldown, in seconds
SignalCooldown == 300
DefaultMaxPositionSize == 500
DefaultMaxOrderSize == 100
DefaultMaxDailyLoss == 100
DefaultStopLossPercent == 5
DefaultTakeProfitPercent == 10
DefaultMaxOpenPositions == 5
DefaultMaxTradesPerDay == 10
\* Decimal::new(100000, 0): five fractional digits
QuantityPrecision == 100000

\* ------------------------------------------------------------------ inputs
Symbols == {"BTCUSDT", "ETHUSDT"}
Calls == {1, 2}
TradeActions == {"Buy", "Sell", "Hold"}
OrderSides == {"Buy", "Sell"}
OrderStatuses == {"New", "Filled", "PartiallyFilled", "Canceled", "Rejected", "Pending"}
\* signal.confidence, in percent
Confidences == {100}
\* signal.price
SignalPrices == {100}
\* prices the market and the exchange report (multiples of 20: x * 95 / 100 is exact)
Prices == {100, 120}
FillQuantities == {1, 2}

\* chrono::Utc::now().timestamp() when the SignalProcessor is built: any second later
\* than signal_cooldown after the epoch
ClockStart == 1000
\* the time between two events of the gate: none is a step of its own, the others are
\* the last second inside the window and the first outside
Elapsed == {299, 300}

\* close prices of the candles
CandlePrices == {1, 2, 3}

\* the high (and low) prices of the candles of a window
PatternPrices == {1, 2, 3}
\* PatternDetector::with_settings(min_candles, tolerance): tolerance in percent
PatternMinCandles == 5
PatternTolerance == 3

\* MarketData: the fields the manager and TradingStrategy read
ClosePrices == {1, 2}
MarketDatas == [open_price : {1}, close_price : ClosePrices, last_price : ClosePrices]
\* MarketData::default()
DefaultMarketData == [open_price |-> 0, close_price |-> 0, last_price |-> 0]
\* the two definitions of MarketDataManager
ManagerImplementations == {"main", "market_data_manager"}

\* TradingConfig::default(): buy_threshold and sell_threshold, in percent
DefaultBuyThreshold == -2
DefaultSellThreshold == 2
\* the RSI levels of determine_action
RsiOversold == 30
RsiOverbought == 70
\* the MarketData handed to TradingStrategy::analyze: open and last price
StrategyOpenPrices == {0, 100}
StrategyLastPrices == {97, 98, 100, 103}
\* the two definitions of TradingStrategy
StrategyImplementations == {"main", "trading_strategy"}


\* last_price of the market data the processor broadcasts: the entry price of the open
\* Position, then a price above its take-profit level; the feed never falls back
BroadcastPrices == {100, 120}
BroadcastSymbol == "BTCUSDT"


\* values of the RSI the strategy computes: below, at and above each default threshold
RsiValues == {0, 15, 30, 50, 70, 85, 100}

\* Option<T>
None == << >>
Some(x) == << x >>
IsSome(o) == o # None
Unwrap(o) == o[1]

\* get_balance("USDT"): Ok(free) or Err
BalanceResults == {None, Some(1000)}

\* RiskParameters::default()
DefaultRiskParameters ==
    [ max_position_size |-> DefaultMaxPositionSize,
      max_order_size |-> DefaultMaxOrderSize,
      max_daily_loss |-> DefaultMaxDailyLoss,
      stop_loss_percent |-> DefaultStopLossPercent,
      take_profit_percent |-> DefaultTakeProfitPercent,
      max_open_positions |-> DefaultMaxOpenPositions,
      max_trades_per_day |-> DefaultMaxTradesPerDay ]

\* The values update_risk_parameters is called with: limits tight enough to be hit.
RiskParameterChoices ==
    { [DefaultRiskParameters EXCEPT !.max_open_positions = 1,
                                    !.max_trades_per_day = 2,
                                    !.max_daily_loss = 20],
      [DefaultRiskParameters EXCEPT !.max_open_positions = 2,
                                    !.max_trades_per_day = 1,
                                    !.max_daily_loss = 20] }

VARIABLES
    positions,     \* HashMap<String, Position>: a function on the symbols that have one
    trades,        \* Vec<Trade>
    risk_params,   \* RiskParameters
    daily_pnl,     \* Decimal
    trade_count,   \* usize
    risk_lock,     \* holder of the risk_params mutex (a call), or 0
    started,       \* start() has spawned the monitor and the market-data consumer
    calls,         \* execute_signal invocations: position in the code, signal, locals, result
    monitor,       \* the Position Monitor task: position in its loop, positions_to_close
    order_seq,     \* orders the exchange has received; the n-th gets order_id n
    now,               \* chrono::Utc::now().timestamp(), in seconds
    last_signal_time,  \* SignalProcessor.last_signal_time
    gate_out,          \* the last signal start_processing received and what became of it
    sent_orders,       \* the orders SignalProcessor passed to exchange.send_order
    sma,               \* SMACrossoverStrategy: fast_period, slow_period
    macd,              \* MACDStrategy: fast_period, slow_period, signal_period
    rsi,               \* RSIStrategy: period, overbought_threshold, oversold_threshold
    update_result,     \* the result of the last update_parameter call
    sizing,            \* one calculate_order_size evaluation: its inputs and its result
    analysis,          \* a candle history and what the analysis functions returned on it
    shutdown,          \* the life of the process: running, shutting down, stopped
    market,            \* a MarketDataManager: its size, current_data, price_history
    runtime,           \* the tasks of the engine on the runtime's worker threads, and its locks
    broadcast,         \* the market-data broadcast channel and the consumer task of start()
    processor,         \* trading/signals.rs SignalProcessor: running and its spawned loops
    bot                \* TradingBot: its exchange client and the signal task's client

\* TradeExecutor and its tasks
executor_vars == << positions, trades, risk_params, daily_pnl, trade_count, risk_lock,
                    started, calls, monitor, order_seq >>

\* SignalProcessor (main.rs)
gate_vars == << now, last_signal_time, gate_out, sent_orders >>

\* the strategies (trading/strategies.rs)
strategy_vars == << sma, macd, rsi, update_result >>

\* the analysis functions and the market-data store
analysis_vars == << analysis >>

\* the process as a whole (TradingBot, main)
system_vars == << shutdown >>

\* MarketDataManager (main.rs, market_data_manager.rs)
market_vars == << market >>

\* the engine's tasks as the runtime schedules them (C34), the broadcast channel (C35),
\* the strategy-running SignalProcessor (C36), TradingBot's exchange clients (C39)
task_vars == << runtime, broadcast, processor, bot >>

vars == << executor_vars, gate_vars, strategy_vars, sizing, analysis_vars, system_vars,
          market_vars, task_vars >>

\* what no task of the runtime, no channel, no loop and no exchange client touches
off_tasks == << executor_vars, gate_vars, strategy_vars, sizing, analysis_vars,
               system_vars, market_vars >>

\* what no operation of the TradeExecutor touches
off_executor == << gate_vars, strategy_vars, sizing, analysis_vars, system_vars,
                  market_vars, task_vars >>

\* what no analysis function touches
off_analysis == << executor_vars, gate_vars, strategy_vars, sizing, system_vars,
                  market_vars, task_vars >>

engine == << positions, trades, daily_pnl, trade_count >>

\* ------------------------------------------------------------ Position
\* Position::new
NewPosition(symbol, side, quantity, price) ==
    [ symbol |-> symbol,
      side |-> side,
      quantity |-> quantity,
      entry_price |-> price,
      current_price |-> price,
      unrealized_pnl |-> 0,
      stop_loss |-> None,
      take_profit |-> None ]

\* price_diff of calculate_pnl and of process_filled_order
PriceDiff(side, entry_price, price) ==
    IF side = "Buy" THEN price - entry_price ELSE entry_price - price

\* variant: the entry price follows the market price
CalculatePnlRebase(p, current_price) ==
    [p EXCEPT !.current_price = current_price,
              !.entry_price = current_price,
              !.unrealized_pnl = 0]

\* variant: the price is written without the PnL
CalculatePnlStale(p, current_price) ==
    [p EXCEPT !.current_price = current_price]

\* Position::calculate_pnl
CalculatePnl(p, current_price) ==
    [p EXCEPT !.current_price = current_price,
              !.unrealized_pnl = PriceDiff(p.side, p.entry_price, current_price) * p.quantity]

\* variant: only the stop-loss level is tested
ShouldCloseStopOnly(p) ==
    IF p.side = "Buy"
    THEN IsSome(p.stop_loss) /\ p.current_price <= Unwrap(p.stop_loss)
    ELSE IsSome(p.stop_loss) /\ p.current_price >= Unwrap(p.stop_loss)

\* variant: the levels of a short are tested like those of a long
ShouldCloseAsLong(p) ==
    \/ IsSome(p.stop_loss) /\ p.current_price <= Unwrap(p.stop_loss)
    \/ IsSome(p.take_profit) /\ p.current_price >= Unwrap(p.take_profit)

\* Position::should_close
ShouldClose(p) ==
    IF p.side = "Buy"
    THEN \/ IsSome(p.stop_loss) /\ p.current_price <= Unwrap(p.stop_loss)
         \/ IsSome(p.take_profit) /\ p.current_price >= Unwrap(p.take_profit)
    ELSE \/ IsSome(p.stop_loss) /\ p.current_price >= Unwrap(p.stop_loss)
         \/ IsSome(p.take_profit) /\ p.current_price <= Unwrap(p.take_profit)

\* HashMap operations
ContainsKey(map, k) == k \in DOMAIN map
Insert(map, k, v) == [x \in DOMAIN map \cup {k} |-> IF x = k THEN v ELSE map[x]]
Remove(map, k) == [x \in DOMAIN map \ {k} |-> map[x]]
MapLen(map) == Cardinality(DOMAIN map)

\* response.average_price.unwrap_or_else(|| order.order_type.get_price().unwrap_or_default())
\* for the Market orders the engine places: get_price() is None, the default is 0
FillPrice(average_price) ==
    IF IsSome(average_price) THEN Unwrap(average_price) ELSE 0


\* ------------------------------------------------------------ Trade ledger
\* the Trade pushed by process_filled_order for an opening fill
EntryTrade(symbol, side, quantity, price, order_id) ==
    [ symbol |-> symbol,
      side |-> side,
      quantity |-> quantity,
      price |-> price,
      pnl |-> None,
      entry_order_id |-> order_id,
      exit_order_id |-> None ]

\* trades.iter_mut().rev().find(|t| t.symbol == symbol && t.exit_order_id.is_none()):
\* the index of the latest Trade of the symbol with no exit, 0 if there is none
FindOpenTrade(ledger, symbol) ==
    LET open == { i \in 1..Len(ledger) :
                    ledger[i].symbol = symbol /\ ledger[i].exit_order_id = None }
    IN  IF open = {} THEN 0 ELSE CHOOSE i \in open : \A j \in open : j <= i

\* trade.exit_order_id = Some(order_id); trade.pnl = Some(pnl)
FinalizeTrade(ledger, i, order_id, pnl) ==
    [ledger EXCEPT ![i].exit_order_id = Some(order_id), ![i].pnl = Some(pnl)]

\* ------------------------------------------------------------ risk checks
\* variant: any Buy or Sell signal counts as the closing direction
IsClosingSignalAnySide(side, action) == action # "Hold"

\* the match of should_execute_signal on (position.side, signal.action)
IsClosingSignal(side, action) ==
    IF side = "Buy" THEN action = "Sell" ELSE action = "Buy"

\* variant: the limit is hit only once the map is past it
OpenPositionsLimitHitPast(map, rp) == MapLen(map) > rp.max_open_positions

\* positions.len() >= risk_params.max_open_positions
OpenPositionsLimitHit(map, rp) == MapLen(map) >= rp.max_open_positions

\* variant: the limit is hit only once the counter is past it
TradesPerDayLimitHitPast(count, rp) == count > rp.max_trades_per_day

\* *trade_count >= risk_params.max_trades_per_day
TradesPerDayLimitHit(count, rp) == count >= rp.max_trades_per_day

\* *daily_pnl <= -risk_params.max_daily_loss
DailyLossLimitHit(pnl, rp) == pnl <= 0 - rp.max_daily_loss

\* variant: every fill is taken for an opening fill
IsNewPositionAlways(map, symbol) == TRUE

\* is_new_position of process_filled_order: !positions.contains_key(&order.symbol)
IsNewPosition(map, symbol) == ~ContainsKey(map, symbol)

\* order_response.status == Filled || order_response.status == PartiallyFilled
IsFill(status) == status \in {"Filled", "PartiallyFilled"}

\* stop_loss / take_profit of process_filled_order:
\* entry_price * (1 -+ stop_loss_percent / 100), entry_price * (1 +- take_profit_percent / 100)
StopLoss(side, entry_price, rp) ==
    IF side = "Buy"
    THEN (entry_price * (100 - rp.stop_loss_percent)) \div 100
    ELSE (entry_price * (100 + rp.stop_loss_percent)) \div 100

TakeProfit(side, entry_price, rp) ==
    IF side = "Buy"
    THEN (entry_price * (100 + rp.take_profit_percent)) \div 100
    ELSE (entry_price * (100 - rp.take_profit_percent)) \div 100

\* variant: the PnL of a long whatever the side
RealizedPnlLongOnly(position, exit_price) ==
    (exit_price - position.entry_price) * position.quantity

\* realized_pnl of process_filled_order's closing branch
RealizedPnl(position, exit_price) ==
    PriceDiff(position.side, position.entry_price, exit_price) * position.quantity

Min(a, b) == IF a <= b THEN a ELSE b

\* variant: the balance does not cap the order
CalculateOrderSizeUncapped(rp, confidence, price, balance) ==
    (rp.max_order_size * confidence * (QuantityPrecision \div 100)) \div price

\* calculate_order_size: the order quantity in units of 10^-5.
\* confidence is in percent, balance is get_balance's result.
CalculateOrderSize(rp, confidence, price, balance) ==
    LET order_size100 == rp.max_order_size * confidence
        quote_balance100 == IF IsSome(balance) THEN Unwrap(balance) * 100
                            ELSE (rp.max_order_size * 100) \div 2
        capped100 == Min(order_size100, quote_balance100)
    IN  (capped100 * (QuantityPrecision \div 100)) \div price

\* ------------------------------------------------------------ calls
IdleCall ==
    [ pc |-> "idle", symbol |-> "", action |-> "Hold", confidence |-> 0, price |-> 0,
      quantity |-> 0, order_id |-> 0, average_price |-> None, filled_quantity |-> 0,
      realized_pnl |-> 0, ret |-> "" ]

\* execute_signal has its result and is about to return it: of the locals only the
\* signal is kept
Return(call, ret) ==
    [IdleCall EXCEPT !.pc = "return", !.symbol = call.symbol, !.action = call.action,
                     !.confidence = call.confidence, !.price = call.price, !.ret = ret]

\* calls whose signal is accepted and whose order has not yet reached the exchange
PreSubmit == {"calculate_order_size", "get_balance"}

\* orders already placed plus those the work in flight may still place
OrdersCommitted ==
    order_seq + Cardinality({c \in Calls : calls[c].pc \in PreSubmit})
              + (IF monitor.pc = "place_order" THEN Len(monitor.to_close)
                 ELSE IF monitor.pc = "sleep" THEN 0 ELSE Len(monitor.to_close) - 1)

ExecutorInit ==
    /\ positions = << >>
    /\ trades = << >>
    /\ risk_params = DefaultRiskParameters
    /\ daily_pnl = 0
    /\ trade_count = 0
    /\ risk_lock = 0
    /\ started = FALSE
    /\ calls = [c \in Calls |-> IdleCall]
    /\ monitor = [pc |-> "sleep", to_close |-> << >>, order |-> None, order_id |-> 0,
                  status |-> "", average_price |-> None]
    /\ order_seq = 0


\* ------------------------------------------------------------ execute_signal
\* execute_signal is called with a signal (the broadcast to subscribers is not state
\* of the engine)
ExecuteSignal(c, symbol, action, confidence, price) ==
    /\ calls[c].pc = "idle"
    /\ calls' = [calls EXCEPT ![c] =
                   [IdleCall EXCEPT !.pc = "check_position", !.symbol = symbol,
                                    !.action = action, !.confidence = confidence,
                                    !.price = price]]
    /\ UNCHANGED << engine, risk_params, risk_lock, started, monitor, order_seq >>
    /\ UNCHANGED off_executor

\* execute_signal returns to its caller
ReturnToCaller(c) ==
    /\ calls[c].pc = "return"
    /\ calls' = [calls EXCEPT ![c] = IdleCall]
    /\ UNCHANGED << engine, risk_params, risk_lock, started, monitor, order_seq >>
    /\ UNCHANGED off_executor

\* should_execute_signal, first critical section: is there a position for the symbol
CheckPosition(c) ==
    LET call == calls[c] IN
    /\ call.pc = "check_position"
    /\ calls' = [calls EXCEPT ![c] =
         IF ContainsKey(positions, call.symbol)
         THEN IF IsClosingSignal(positions[call.symbol].side, call.action)
              THEN [call EXCEPT !.pc = "calculate_order_size"]
              ELSE Return(call, "Ok(None)")
         ELSE [call EXCEPT !.pc = "check_open_positions"]]
    /\ UNCHANGED << engine, risk_params, risk_lock, started, monitor, order_seq >>
    /\ UNCHANGED off_executor

\* should_execute_signal: risk_params.lock(), then the open-position limit
CheckOpenPositions(c) ==
    LET call == calls[c] IN
    /\ call.pc = "check_open_positions"
    /\ risk_lock = 0
    /\ IF OpenPositionsLimitHit(positions, risk_params)
       THEN /\ calls' = [calls EXCEPT ![c] = Return(call, "Ok(None)")]
            /\ UNCHANGED risk_lock
       ELSE /\ calls' = [calls EXCEPT ![c].pc = "check_trade_count"]
            /\ risk_lock' = c
    /\ UNCHANGED << engine, risk_params, started, monitor, order_seq >>
    /\ UNCHANGED off_executor

\* should_execute_signal: the trades-per-day limit
CheckTradeCount(c) ==
    LET call == calls[c] IN
    /\ call.pc = "check_trade_count"
    /\ IF TradesPerDayLimitHit(trade_count, risk_params)
       THEN /\ calls' = [calls EXCEPT ![c] = Return(call, "Ok(None)")]
            /\ risk_lock' = 0
       ELSE /\ calls' = [calls EXCEPT ![c].pc = "check_daily_pnl"]
            /\ UNCHANGED risk_lock
    /\ UNCHANGED << engine, risk_params, started, monitor, order_seq >>
    /\ UNCHANGED off_executor

\* should_execute_signal: the daily-loss limit; the risk_params guard is dropped on return
CheckDailyPnl(c) ==
    LET call == calls[c] IN
    /\ call.pc = "check_daily_pnl"
    /\ calls' = [calls EXCEPT ![c] =
         IF DailyLossLimitHit(daily_pnl, risk_params)
         THEN Return(call, "Ok(None)")
         ELSE [call EXCEPT !.pc = "calculate_order_size"]]
    /\ risk_lock' = 0
    /\ UNCHANGED << engine, risk_params, started, monitor, order_seq >>
    /\ UNCHANGED off_executor

\* calculate_order_size: risk_params.lock(), held across the get_balance await
LockForOrderSize(c) ==
    /\ calls[c].pc = "calculate_order_size"
    /\ risk_lock = 0
    /\ risk_lock' = c
    /\ calls' = [calls EXCEPT ![c].pc = "get_balance"]
    /\ UNCHANGED << engine, risk_params, started, monitor, order_seq >>
    /\ UNCHANGED off_executor

\* variant: a Hold signal is given a side like any other
OrderSideOfAny(action) == IF action = "Buy" THEN Some("Buy") ELSE Some("Sell")

\* the side of the order built for a signal: the match on signal.action, which has
\* no side for Hold
OrderSideOf(action) ==
    IF action = "Buy" THEN Some("Buy")
    ELSE IF action = "Sell" THEN Some("Sell")
    ELSE None

\* get_balance returns; the quantity is computed, the guard dropped, the order built:
\* a Hold signal returns Ok(None) here, any other is submitted to the exchange
PlaceOrder(c, balance) ==
    LET call == calls[c]
        quantity == CalculateOrderSize(risk_params, call.confidence, call.price, balance)
    IN
    /\ call.pc = "get_balance"
    /\ risk_lock' = 0
    /\ IF OrderSideOf(call.action) = None
       THEN /\ calls' = [calls EXCEPT ![c] = Return(call, "Ok(None)")]
            /\ UNCHANGED order_seq
       ELSE /\ order_seq' = order_seq + 1
            /\ calls' = [calls EXCEPT ![c].pc = "place_order",
                                      ![c].quantity = quantity,
                                      ![c].order_id = order_seq + 1]
    /\ UNCHANGED << engine, risk_params, started, monitor >>
    /\ UNCHANGED off_executor

\* variant: the attempt is counted as a trade before the error is returned
OrderFailsCounted(c) ==
    LET call == calls[c] IN
    /\ call.pc = "place_order"
    /\ trade_count' = trade_count + 1
    /\ calls' = [calls EXCEPT ![c] = Return(call, "Err")]
    /\ UNCHANGED << positions, trades, daily_pnl, risk_params, risk_lock, started,
                    monitor, order_seq >>
    /\ UNCHANGED off_executor

\* place_order fails: the error is returned
OrderFails(c) ==
    LET call == calls[c] IN
    /\ call.pc = "place_order"
    /\ calls' = [calls EXCEPT ![c] = Return(call, "Err")]
    /\ UNCHANGED << engine, risk_params, risk_lock, started, monitor, order_seq >>
    /\ UNCHANGED off_executor

\* place_order returns Ok(response): the status test of execute_signal and, for a fill,
\* the first critical section of process_filled_order (is_new_position)
OrderReturns(c, status, filled_quantity, average_price) ==
    LET call == calls[c] IN
    /\ call.pc = "place_order"
    /\ calls' = [calls EXCEPT ![c] =
         IF ~IsFill(status)
         THEN Return(call, "Ok(Some)")
         ELSE [call EXCEPT !.filled_quantity = filled_quantity,
                           !.average_price = average_price,
                           !.pc = IF IsNewPosition(positions, call.symbol)
                                  THEN "open_position" ELSE "close_position"]]
    /\ UNCHANGED << engine, risk_params, risk_lock, started, monitor, order_seq >>
    /\ UNCHANGED off_executor

\* the Position process_filled_order inserts for an opening fill
OpenedPosition(call, rp) ==
    LET price == FillPrice(call.average_price)
        side == call.action
    IN  [NewPosition(call.symbol, side, call.filled_quantity, price) EXCEPT
            !.stop_loss = Some(StopLoss(side, price, rp)),
            !.take_profit = Some(TakeProfit(side, price, rp))]

\* process_filled_order, opening branch: risk_params.lock(), the levels, positions.insert
InsertPosition(c) ==
    LET call == calls[c] IN
    /\ call.pc = "open_position"
    /\ risk_lock = 0
    /\ risk_lock' = c
    /\ positions' = Insert(positions, call.symbol, OpenedPosition(call, risk_params))
    /\ calls' = [calls EXCEPT ![c].pc = "record_trade"]
    /\ UNCHANGED << trades, daily_pnl, trade_count, risk_params, started, monitor, order_seq >>
    /\ UNCHANGED off_executor

\* process_filled_order, opening branch: trades.push and trade_count += 1 under the
\* trades lock; the risk_params guard is dropped at the end of the branch
RecordTrade(c) ==
    LET call == calls[c] IN
    /\ call.pc = "record_trade"
    /\ trades' = Append(trades, EntryTrade(call.symbol, call.action, call.filled_quantity,
                                           FillPrice(call.average_price), call.order_id))
    /\ trade_count' = trade_count + 1
    /\ risk_lock' = 0
    /\ calls' = [calls EXCEPT ![c] = Return(call, "Ok(Some)")]
    /\ UNCHANGED << positions, daily_pnl, risk_params, started, monitor, order_seq >>
    /\ UNCHANGED off_executor

\* process_filled_order, closing branch: positions.remove and the realized PnL
RemovePosition(c) ==
    LET call == calls[c] IN
    /\ call.pc = "close_position"
    /\ IF ContainsKey(positions, call.symbol)
       THEN /\ positions' = Remove(positions, call.symbol)
            /\ calls' = [calls EXCEPT ![c].pc = "record_exit",
                           ![c].realized_pnl =
                               RealizedPnl(positions[call.symbol], FillPrice(call.average_price))]
       ELSE /\ calls' = [calls EXCEPT ![c] = Return(call, "Ok(Some)")]
            /\ UNCHANGED positions
    /\ UNCHANGED << trades, daily_pnl, trade_count, risk_params, risk_lock, started,
                    monitor, order_seq >>
    /\ UNCHANGED off_executor

\* process_filled_order, closing branch: the latest open Trade of the symbol gets its exit
RecordExit(c) ==
    LET call == calls[c]
        i == FindOpenTrade(trades, call.symbol)
    IN
    /\ call.pc = "record_exit"
    /\ trades' = IF i = 0 THEN trades
                 ELSE FinalizeTrade(trades, i, call.order_id, call.realized_pnl)
    /\ calls' = [calls EXCEPT ![c].pc = "update_daily_pnl"]
    /\ UNCHANGED << positions, daily_pnl, trade_count, risk_params, risk_lock, started,
                    monitor, order_seq >>
    /\ UNCHANGED off_executor

\* process_filled_order, closing branch: *daily_pnl += realized_pnl
UpdateDailyPnl(c) ==
    LET call == calls[c] IN
    /\ call.pc = "update_daily_pnl"
    /\ daily_pnl' = daily_pnl + call.realized_pnl
    /\ calls' = [calls EXCEPT ![c] = Return(call, "Ok(Some)")]
    /\ UNCHANGED << positions, trades, trade_count, risk_params, risk_lock, started,
                    monitor, order_seq >>
    /\ UNCHANGED off_executor

\* ------------------------------------------------------------ other operations
\* start(): spawns the Position Monitor and the market-data consumer
Start ==
    /\ ~started
    /\ started' = TRUE
    /\ UNCHANGED << engine, risk_params, risk_lock, calls, monitor, order_seq >>
    /\ UNCHANGED off_executor

\* update_risk_parameters
UpdateRiskParameters(params) ==
    /\ risk_lock = 0
    /\ risk_params # params
    /\ risk_params' = params
    /\ UNCHANGED << engine, risk_lock, started, calls, monitor, order_seq >>
    /\ UNCHANGED off_executor

\* the market-data consumer of start(): one update of a symbol's last_price
MarketDataUpdate(symbol, last_price) ==
    /\ started
    /\ ContainsKey(positions, symbol)
    /\ positions' = [positions EXCEPT ![symbol] = CalculatePnl(@, last_price)]
    /\ UNCHANGED << trades, daily_pnl, trade_count, risk_params, risk_lock, started,
                    calls, monitor, order_seq >>
    /\ UNCHANGED off_executor


\* ------------------------------------------------------------ Position Monitor
\* the orders in which a HashMap may yield the elements of a set
Orderings(S) ==
    { q \in [1..Cardinality(S) -> S] : \A i, j \in 1..Cardinality(S) : q[i] = q[j] => i = j }

\* the monitor moves on to the next position of positions_to_close, or to the next tick
MonitorNext(rest) ==
    [pc |-> IF rest = << >> THEN "sleep" ELSE "place_order",
     to_close |-> rest, order |-> None, order_id |-> 0, status |-> "",
     average_price |-> None]

\* the Order the monitor builds for a position of positions_to_close: a Market order
\* on the opposite side for position.quantity
CloseOrder(position) ==
    [ symbol |-> position.symbol,
      quantity |-> position.quantity,
      order_type |-> "Market",
      side |-> IF position.side = "Buy" THEN "Sell" ELSE "Buy" ]

\* the close orders a tick would commit the monitor to
ClosingNow == { s \in DOMAIN positions : ShouldClose(positions[s]) }

\* interval.tick(): positions_to_close is the clone of every position that should_close
MonitorTick ==
    LET closing == { s \in DOMAIN positions : ShouldClose(positions[s]) } IN
    /\ started
    /\ monitor.pc = "sleep"
    /\ \E q \in Orderings(closing) :
          monitor' = MonitorNext([i \in 1..Len(q) |-> positions[q[i]]])
    /\ UNCHANGED << engine, risk_params, risk_lock, started, calls, order_seq >>
    /\ UNCHANGED off_executor

\* the close order of the next position is submitted to the exchange
MonitorPlaceOrder ==
    /\ monitor.pc = "place_order"
    /\ order_seq' = order_seq + 1
    /\ monitor' = [monitor EXCEPT !.pc = "await_order", !.order_id = order_seq + 1,
                                  !.order = Some(CloseOrder(Head(monitor.to_close)))]
    /\ UNCHANGED << engine, risk_params, risk_lock, started, calls >>
    /\ UNCHANGED off_executor

\* place_order fails: logged, the loop goes on
MonitorOrderFails ==
    /\ monitor.pc = "await_order"
    /\ monitor' = MonitorNext(Tail(monitor.to_close))
    /\ UNCHANGED << engine, risk_params, risk_lock, started, calls, order_seq >>
    /\ UNCHANGED off_executor

\* place_order returns Ok(response): whatever the response says, the position is removed
MonitorOrderReturns(status, average_price) ==
    /\ monitor.pc = "await_order"
    /\ positions' = Remove(positions, Head(monitor.to_close).symbol)
    /\ monitor' = [monitor EXCEPT !.pc = "record_trade", !.status = status,
                                  !.average_price = average_price]
    /\ UNCHANGED << trades, daily_pnl, trade_count, risk_params, risk_lock, started,
                    calls, order_seq >>
    /\ UNCHANGED off_executor

\* the latest open Trade of the symbol, if any, gets its exit and the snapshot's
\* unrealized_pnl, which is added to daily_pnl under the trades lock
MonitorRecordTrade ==
    LET position == Head(monitor.to_close)
        i == FindOpenTrade(trades, position.symbol)
    IN
    /\ monitor.pc = "record_trade"
    /\ IF i = 0
       THEN UNCHANGED << trades, daily_pnl >>
       ELSE /\ trades' = FinalizeTrade(trades, i, monitor.order_id, position.unrealized_pnl)
            /\ daily_pnl' = daily_pnl + position.unrealized_pnl
    /\ monitor' = MonitorNext(Tail(monitor.to_close))
    /\ UNCHANGED << positions, trade_count, risk_params, risk_lock, started, calls,
                    order_seq >>
    /\ UNCHANGED off_executor

\* ------------------------------------------------------------ SignalProcessor
\* SignalProcessor::new
GateInit ==
    /\ now = ClockStart
    /\ last_signal_time = 0
    /\ gate_out = None
    /\ sent_orders = << >>

\* variant: the window includes its last second
InCooldownInclusive(t, last) == t - last <= SignalCooldown

\* time_since_last < self.signal_cooldown
InCooldown(t, last) == t - last < SignalCooldown

\* variant: inside the window every signal is dropped
ShouldProcessOutsideWindow(t, last, action) == ~InCooldown(t, last)

\* should_process_signal's result
ShouldProcessSignal(t, last, action) == ~(InCooldown(t, last) /\ action = "Hold")

\* the Market order process_signal builds for a Buy or Sell signal, with the second at
\* which the signal was let through
GateOrder(symbol, action, t) ==
    [ symbol |-> symbol, side |-> action, order_type |-> "Market", time |-> t ]

\* start_processing receives one signal: should_process_signal, then process_signal and
\* execute_order for a signal that is let through (send_order's result is only logged)
ReceiveSignal(symbol, action) ==
    LET forwarded == ShouldProcessSignal(now, last_signal_time, action)
        restart == forwarded /\ action # "Hold"
    IN
    /\ action # "Hold" => Len(sent_orders) < MaxSends
    /\ gate_out' = Some([symbol |-> symbol, action |-> action, forwarded |-> forwarded])
    /\ last_signal_time' = IF restart THEN now ELSE last_signal_time
    /\ sent_orders' = IF restart THEN Append(sent_orders, GateOrder(symbol, action, now))
                      ELSE sent_orders
    /\ UNCHANGED << now, executor_vars, strategy_vars, sizing, analysis_vars, system_vars,
                    market_vars, task_vars >>

\* time passes
Elapse(d) ==
    /\ now + d <= ClockStart + MaxElapsed
    /\ now' = now + d
    /\ UNCHANGED << last_signal_time, gate_out, sent_orders, executor_vars, strategy_vars,
                    sizing, analysis_vars, system_vars,
                    market_vars, task_vars >>

\* ------------------------------------------------------------ order sizing
\* the arguments calculate_order_size is evaluated with: risk_params.max_order_size,
\* signal.confidence (percent), signal.price, and get_balance's result
SizingInputs ==
    [ risk_params : { [DefaultRiskParameters EXCEPT !.max_order_size = m] :
                         m \in {7, DefaultMaxOrderSize} },
      confidence : {0, 1, 50, 100},
      price : {1, 3, 7, 100},
      balance : {None, Some(0), Some(1), Some(40), Some(1000)},
      quantity : {None} ]

\* calculate_order_size returns
ComputeOrderSize ==
    /\ sizing # None
    /\ sizing.quantity = None
    /\ sizing' = [sizing EXCEPT !.quantity =
                     Some(CalculateOrderSize(sizing.risk_params, sizing.confidence,
                                             sizing.price, sizing.balance))]
    /\ UNCHANGED << executor_vars, gate_vars, strategy_vars, analysis_vars, system_vars,
                    market_vars, task_vars >>

\* ------------------------------------------------------------ strategies
\* f64: a number or NaN; every comparison with NaN is false
Float(v) == [nan |-> FALSE, v |-> v]
NaN == [nan |-> TRUE, v |-> 0]
FloatLt(a, b) == ~a.nan /\ ~b.nan /\ a.v < b.v
FloatLe(a, b) == ~a.nan /\ ~b.nan /\ a.v <= b.v
FloatGt(a, b) == FloatLt(b, a)
FloatGe(a, b) == FloatLe(b, a)

\* ParameterValue
IntegerValue(i) == [type |-> "Integer", value |-> i]
FloatValue(f) == [type |-> "Float", value |-> f]
BooleanValue(b) == [type |-> "Boolean", value |-> b]

ParameterValues ==
    { IntegerValue(i) : i \in 1 .. 4 }
       \cup { FloatValue(Float(v)) : v \in {0 - 1, 0, 30, 70, 100, 101} }
       \cup { FloatValue(NaN), BooleanValue(TRUE) }

ParameterNames ==
    { "fast_period", "slow_period", "signal_period", "period",
      "overbought_threshold", "oversold_threshold", "symbol" }

\* the configurations the strategies are constructed with
SMAConfigs == { [fast_period |-> 2, slow_period |-> 3], [fast_period |-> 3, slow_period |-> 4] }
MACDConfigs == { [fast_period |-> 2, slow_period |-> 3, signal_period |-> 2] }
RSIConfigs == { [period |-> 2, overbought_threshold |-> Float(70),
                 oversold_threshold |-> Float(30)] }

StrategyInit ==
    /\ sma = [fast_period |-> 2, slow_period |-> 3]
    /\ macd = [fast_period |-> 2, slow_period |-> 3, signal_period |-> 2]
    /\ rsi = [period |-> 2, overbought_threshold |-> Float(70),
               oversold_threshold |-> Float(30)]
    /\ update_result = None

\* update_parameter's arm ("fast_period", Integer(period)), of SMA and MACD alike
SMAUpdateFast(s, value) ==
    IF value.value < 2 \/ value.value >= s.slow_period
    THEN [ok |-> FALSE, strategy |-> s]
    ELSE [ok |-> TRUE, strategy |-> [s EXCEPT !.fast_period = value.value]]

\* update_parameter's arm ("slow_period", Integer(period)), of SMA and MACD alike
SMAUpdateSlow(s, value) ==
    IF value.value <= s.fast_period
    THEN [ok |-> FALSE, strategy |-> s]
    ELSE [ok |-> TRUE, strategy |-> [s EXCEPT !.slow_period = value.value]]

\* SMACrossoverStrategy::update_parameter
SMAUpdate(s, name, value) ==
    IF name = "fast_period" /\ value.type = "Integer" THEN SMAUpdateFast(s, value)
    ELSE IF name = "slow_period" /\ value.type = "Integer" THEN SMAUpdateSlow(s, value)
    ELSE [ok |-> FALSE, strategy |-> s]

\* MACDStrategy::update_parameter
MACDUpdate(s, name, value) ==
    IF name = "fast_period" /\ value.type = "Integer" THEN SMAUpdateFast(s, value)
    ELSE IF name = "slow_period" /\ value.type = "Integer" THEN SMAUpdateSlow(s, value)
    ELSE IF name = "signal_period" /\ value.type = "Integer"
    THEN IF value.value < 2
         THEN [ok |-> FALSE, strategy |-> s]
         ELSE [ok |-> TRUE, strategy |-> [s EXCEPT !.signal_period = value.value]]
    ELSE [ok |-> FALSE, strategy |-> s]

\* RSIStrategy::update_parameter
RSIUpdate(s, name, value) ==
    IF name = "period" /\ value.type = "Integer"
    THEN IF value.value < 2
         THEN [ok |-> FALSE, strategy |-> s]
         ELSE [ok |-> TRUE, strategy |-> [s EXCEPT !.period = value.value]]
    ELSE IF name = "overbought_threshold" /\ value.type = "Float"
    THEN IF FloatLe(value.value, s.oversold_threshold) \/ FloatGt(value.value, Float(100))
         THEN [ok |-> FALSE, strategy |-> s]
         ELSE [ok |-> TRUE, strategy |-> [s EXCEPT !.overbought_threshold = value.value]]
    ELSE IF name = "oversold_threshold" /\ value.type = "Float"
    THEN IF FloatGe(value.value, s.overbought_threshold) \/ FloatLt(value.value, Float(0))
         THEN [ok |-> FALSE, strategy |-> s]
         ELSE [ok |-> TRUE, strategy |-> [s EXCEPT !.oversold_threshold = value.value]]
    ELSE [ok |-> FALSE, strategy |-> s]

\* TradingResult<()> of the last update_parameter call
UpdateResult(strategy, r) ==
    Some([strategy |-> strategy, result |-> IF r.ok THEN "Ok" ELSE "Err"])

SMAUpdateParameter(name, value) ==
    LET r == SMAUpdate(sma, name, value) IN
    /\ sma' = r.strategy
    /\ update_result' = UpdateResult("SMA", r)
    /\ UNCHANGED << macd, rsi, executor_vars, gate_vars, sizing, analysis_vars, system_vars,
                    market_vars, task_vars >>

MACDUpdateParameter(name, value) ==
    LET r == MACDUpdate(macd, name, value) IN
    /\ macd' = r.strategy
    /\ update_result' = UpdateResult("MACD", r)
    /\ UNCHANGED << sma, rsi, executor_vars, gate_vars, sizing, analysis_vars, system_vars,
                    market_vars, task_vars >>

RSIUpdateParameter(name, value) ==
    LET r == RSIUpdate(rsi, name, value) IN
    /\ rsi' = r.strategy
    /\ update_result' = UpdateResult("RSI", r)
    /\ UNCHANGED << sma, macd, executor_vars, gate_vars, sizing, analysis_vars, system_vars,
                    market_vars, task_vars >>

\* ------------------------------------------------------------ indicators
\* f64 values are kept as exact fractions num / den (den > 0)
Frac(n, d) == [num |-> n, den |-> d]
FracGt(a, b) == a.num * b.den > b.num * a.den
FracLt(a, b) == FracGt(b, a)

\* AnalysisResult / TradingResult
Ok(v) == [ok |-> TRUE, value |-> v]
Err(e) == [ok |-> FALSE, error |-> e]

\* prices.iter().take(n).sum()
RECURSIVE SumTake(_, _)
SumTake(prices, n) ==
    IF n = 0 THEN 0 ELSE SumTake(prices, n - 1) + prices[n]

\* calculate_sma's sliding window: the loop `for i in period..prices.len()`, i counted
\* from 1 here
RECURSIVE SmaWindow(_, _, _, _, _)
SmaWindow(prices, period, i, sum, result) ==
    IF i > Len(prices) THEN result
    ELSE LET next == sum - prices[i - period] + prices[i]
         IN  SmaWindow(prices, period, i + 1, next, Append(result, Frac(next, period)))

\* indicators::calculate_sma
CalculateSma(prices, period) ==
    IF Len(prices) < period THEN Err("InsufficientData")
    ELSE LET sum == SumTake(prices, period)
         IN  Ok(SmaWindow(prices, period, period + 1, sum, << Frac(sum, period) >>))

\* SMACrossoverStrategy::analyze, the comparison of the last two points of each average
Crossover(fast_sma, slow_sma) ==
    LET fast_current == fast_sma[Len(fast_sma)]
        fast_previous == fast_sma[Len(fast_sma) - 1]
        slow_current == slow_sma[Len(slow_sma)]
        slow_previous == slow_sma[Len(slow_sma) - 1]
        was_above == FracGt(fast_previous, slow_previous)
        is_above == FracGt(fast_current, slow_current)
    IN  IF ~was_above /\ is_above THEN Some("Buy")
        ELSE IF was_above /\ ~is_above THEN Some("Sell")
        ELSE None

\* SMACrossoverStrategy::analyze: Err, Ok(None) or Ok(Some(signal)), the signal given by
\* its action
SMAAnalyze(s, prices) ==
    IF Len(prices) < s.slow_period + 2 THEN Err("Strategy")
    ELSE LET fast_sma == CalculateSma(prices, s.fast_period)
             slow_sma == CalculateSma(prices, s.slow_period)
         IN  IF ~fast_sma.ok \/ ~slow_sma.ok THEN Err("Strategy")
             ELSE IF Len(fast_sma.value) < 2 \/ Len(slow_sma.value) < 2 THEN Ok(None)
             ELSE Ok(Crossover(fast_sma.value, slow_sma.value))

\* a candle closes and the strategy analyses the history up to it
SMAAnalyzeNext(price) ==
    /\ analysis # None
    /\ Len(analysis.prices) < MaxCandles
    /\ LET prices == Append(analysis.prices, price)
       IN  analysis' = [prices |-> prices,
                        signals |-> Append(analysis.signals, SMAAnalyze(sma, prices))]
    /\ UNCHANGED off_analysis

\* ------------------------------------------------------------ shutdown
\* TradingBot::shutdown is entered: the shutdown message is sent and
\* exchange.disconnect() awaited; no task is told anything
BeginShutdown ==
    /\ shutdown = "running"
    /\ shutdown' = "shutting_down"
    /\ UNCHANGED << executor_vars, gate_vars, strategy_vars, sizing, analysis_vars,
                    market_vars, task_vars >>

\* the .await points of execute_signal and of the Position Monitor: a task is dropped
\* only where it is suspended
CallSuspended(c) == calls[c].pc \in {"idle", "get_balance", "place_order"}
MonitorSuspended == monitor.pc \in {"sleep", "await_order"}

\* shutdown() returns, start() and main return and the runtime is dropped: every
\* spawned task is dropped at the .await it is suspended at
Teardown ==
    /\ shutdown = "shutting_down"
    /\ \A c \in Calls : CallSuspended(c)
    /\ MonitorSuspended
    /\ shutdown' = "stopped"
    /\ UNCHANGED << executor_vars, gate_vars, strategy_vars, sizing, analysis_vars,
                    market_vars, task_vars >>

\* the runtime still runs the tasks
Alive == shutdown # "stopped"

\* ------------------------------------------------------------ indicators on f64 series
\* fractions in lowest terms, so that equal values are equal records
RECURSIVE GCD(_, _)
GCD(a, b) == IF b = 0 THEN a ELSE GCD(b, a % b)
Abs(x) == IF x < 0 THEN 0 - x ELSE x
FracN(n, d) ==
    LET g == GCD(Abs(n), d) IN [num |-> n \div g, den |-> d \div g]
FracAdd(a, b) == FracN(a.num * b.den + b.num * a.den, a.den * b.den)
FracSub(a, b) == FracN(a.num * b.den - b.num * a.den, a.den * b.den)
FracMul(a, b) == FracN(a.num * b.num, a.den * b.den)
\* x / n as f64, n a positive count
FracDivInt(a, n) == FracN(a.num, a.den * n)

\* a series of integer prices as f64 values
Floats(prices) == [i \in 1 .. Len(prices) |-> FracN(prices[i], 1)]

\* the thread panics: nothing is returned
Panics == [ok |-> FALSE, error |-> "panic"]

\* values.iter().take(n).sum::<f64>()
RECURSIVE FracSumTake(_, _)
FracSumTake(values, n) ==
    IF n = 0 THEN FracN(0, 1) ELSE FracAdd(FracSumTake(values, n - 1), values[n])

\* the loop of calculate_ema: new_ema = (prices[i] - previous_ema) * multiplier + previous_ema
RECURSIVE EmaLoop(_, _, _, _)
EmaLoop(prices, multiplier, i, result) ==
    IF i > Len(prices) THEN result
    ELSE LET previous_ema == result[Len(result)]
             new_ema == FracAdd(FracMul(FracSub(prices[i], previous_ema), multiplier),
                                previous_ema)
         IN  EmaLoop(prices, multiplier, i + 1, Append(result, new_ema))

\* indicators::calculate_ema
CalculateEma(prices, period) ==
    IF Len(prices) < period THEN Err("InsufficientData")
    ELSE LET multiplier == FracN(2, period + 1)
             first_sma == FracDivInt(FracSumTake(prices, period), period)
         IN  Ok(EmaLoop(prices, multiplier, period + 1, << first_sma >>))

\* the histogram of calculate_macd: macd_line zipped with signal_line
Histogram(macd_line, signal_line) ==
    LET n == IF Len(macd_line) <= Len(signal_line) THEN Len(macd_line) ELSE Len(signal_line)
    IN  [i \in 1 .. n |-> FracSub(macd_line[i], signal_line[i])]

\* indicators::calculate_macd.  `slow_period - fast_period` on usize with
\* fast_period > slow_period panics in a debug build and wraps in a release build, where
\* skip(offset) then leaves aligned_fast_ema empty and aligned_fast_ema[0] panics.
CalculateMacd(prices, fast_period, slow_period, signal_period) ==
    IF Len(prices) < slow_period + signal_period THEN Err("InsufficientData")
    ELSE LET fast_ema == CalculateEma(prices, fast_period)
             slow_ema == CalculateEma(prices, slow_period)
         IN  IF ~fast_ema.ok THEN fast_ema
             ELSE IF ~slow_ema.ok THEN slow_ema
             ELSE IF slow_period < fast_period THEN Panics
             ELSE LET offset == slow_period - fast_period
                      aligned_fast_ema == SubSeq(fast_ema.value, offset + 1,
                                                 Len(fast_ema.value))
                  IN  IF Len(aligned_fast_ema) < Len(slow_ema.value) THEN Panics
                      ELSE LET macd_line ==
                                   [i \in 1 .. Len(slow_ema.value) |->
                                       FracSub(aligned_fast_ema[i], slow_ema.value[i])]
                               signal_line == CalculateEma(macd_line, signal_period)
                           IN  IF ~signal_line.ok THEN signal_line
                               ELSE Ok([macd_line |-> macd_line,
                                        signal_line |-> signal_line.value,
                                        histogram |-> Histogram(macd_line,
                                                                signal_line.value)])

\* ta::calculate_ema: a Vec, empty for a short input; the EMA of the last `period`
\* prices otherwise
TaCalculateEma(prices, period) ==
    IF Len(prices) < period THEN << >>
    ELSE LET prices_to_use == SubSeq(prices, Len(prices) - period + 1, Len(prices))
             multiplier == FracN(2, period + 1)
             first_sma == FracDivInt(FracSumTake(prices_to_use, Len(prices_to_use)),
                                     Len(prices_to_use))
         IN  EmaLoop(prices_to_use, multiplier, 2, << first_sma >>)

\* one indicator function is called on the series
Called(function, periods, result) ==
    /\ analysis # None
    /\ analysis.call = None
    /\ analysis' = [analysis EXCEPT !.call =
                       Some([function |-> function, periods |-> periods,
                             result |-> result])]
    /\ UNCHANGED off_analysis

CallSma(period) ==
    Called("calculate_sma", << period >>, CalculateSma(analysis.prices, period))

CallEma(period) ==
    Called("calculate_ema", << period >>, CalculateEma(Floats(analysis.prices), period))

CallMacd(fast_period, slow_period, signal_period) ==
    Called("calculate_macd", << fast_period, slow_period, signal_period >>,
           CalculateMacd(Floats(analysis.prices), fast_period, slow_period, signal_period))

CallTaEma(period) ==
    Called("ta::calculate_ema", << period >>,
           Ok(TaCalculateEma(Floats(analysis.prices), period)))

\* ------------------------------------------------------------ pattern detection
\* Indices count from 1; a pattern is given by the indices of its candles.

\* find_peaks / find_troughs: the first `count` local maxima (minima), the loop
\* `for i in 1..prices.len() - 1`
RECURSIVE FindExtrema(_, _, _, _, _)
FindExtrema(prices, count, i, found, peak) ==
    IF i > Len(prices) - 1 THEN found
    ELSE LET is_extremum ==
                 IF peak THEN prices[i] > prices[i - 1] /\ prices[i] > prices[i + 1]
                 ELSE prices[i] < prices[i - 1] /\ prices[i] < prices[i + 1]
         IN  IF is_extremum
             THEN IF Len(found) + 1 >= count THEN Append(found, i)
                  ELSE FindExtrema(prices, count, i + 1, Append(found, i), peak)
             ELSE FindExtrema(prices, count, i + 1, found, peak)

FindPeaks(prices, count) ==
    IF Len(prices) < 3 THEN << >> ELSE FindExtrema(prices, count, 2, << >>, TRUE)

FindTroughs(prices, count) ==
    IF Len(prices) < 3 THEN << >> ELSE FindExtrema(prices, count, 2, << >>, FALSE)

\* the loop of find_trough / find_peak over start + 2 .. end
RECURSIVE BetweenLoop(_, _, _, _, _)
BetweenLoop(prices, i, end, best, lowest) ==
    IF i >= end THEN best
    ELSE IF (lowest /\ prices[i] < prices[best]) \/ (~lowest /\ prices[i] > prices[best])
         THEN BetweenLoop(prices, i + 1, end, i, lowest)
         ELSE BetweenLoop(prices, i + 1, end, best, lowest)

\* find_trough: the index of the lowest price strictly between start and end
FindTrough(prices, start, end) ==
    IF start >= end \/ end > Len(prices) THEN None
    ELSE Some(BetweenLoop(prices, start + 2, end, start + 1, TRUE))

\* find_peak: the index of the highest price strictly between start and end
FindPeak(prices, start, end) ==
    IF start >= end \/ end > Len(prices) THEN None
    ELSE Some(BetweenLoop(prices, start + 2, end, start + 1, FALSE))

\* (a - b).abs() / a <= tolerance
WithinTolerance(a, b) == Abs(a - b) * 100 <= PatternTolerance * a

\* (a - b) / a > 0.03
SignificantlyBelow(b, a) == (a - b) * 100 > 3 * a

\* the body of detect_double_top's loop for the pair (first_idx, second_idx)
DoubleTopAt(prices, first_idx, second_idx) ==
    IF second_idx - first_idx < 5 THEN None
    ELSE IF ~WithinTolerance(prices[first_idx], prices[second_idx]) THEN None
    ELSE LET trough == FindTrough(prices, first_idx, second_idx)
         IN  IF trough = None THEN None
             ELSE IF /\ SignificantlyBelow(prices[Unwrap(trough)], prices[first_idx])
                     /\ SignificantlyBelow(prices[Unwrap(trough)], prices[second_idx])
                  THEN Some([first |-> first_idx, second |-> second_idx,
                             middle |-> Unwrap(trough)])
                  ELSE None

\* (b - a) / a > 0.03
SignificantlyAbove(b, a) == (b - a) * 100 > 3 * a

\* the body of detect_double_bottom's loop for the pair (first_idx, second_idx)
DoubleBottomAt(prices, first_idx, second_idx) ==
    IF second_idx - first_idx < 5 THEN None
    ELSE IF ~WithinTolerance(prices[first_idx], prices[second_idx]) THEN None
    ELSE LET peak == FindPeak(prices, first_idx, second_idx)
         IN  IF peak = None THEN None
             ELSE IF /\ SignificantlyAbove(prices[Unwrap(peak)], prices[first_idx])
                     /\ SignificantlyAbove(prices[Unwrap(peak)], prices[second_idx])
                  THEN Some([first |-> first_idx, second |-> second_idx,
                             middle |-> Unwrap(peak)])
                  ELSE None

\* the body of detect_head_and_shoulders' loop for the triple of peaks
HeadAndShouldersAt(prices, left_idx, head_idx, right_idx) ==
    IF head_idx - left_idx < 3 \/ right_idx - head_idx < 3 THEN None
    ELSE IF ~(prices[head_idx] > prices[left_idx] /\ prices[head_idx] > prices[right_idx])
    THEN None
    ELSE IF ~WithinTolerance(prices[left_idx], prices[right_idx]) THEN None
    ELSE LET left_trough == FindTrough(prices, left_idx, head_idx)
             right_trough == FindTrough(prices, head_idx, right_idx)
         IN  IF left_trough = None \/ right_trough = None THEN None
             ELSE Some([left_shoulder |-> left_idx, head |-> head_idx,
                        right_shoulder |-> right_idx,
                        left_trough |-> Unwrap(left_trough),
                        right_trough |-> Unwrap(right_trough)])

\* the loops `for i in 0..extrema.len() - 1` (pairs) and `0..peaks.len() - 2` (triples):
\* the first pattern found is returned
RECURSIVE PairLoop(_, _, _, _)
PairLoop(prices, extrema, i, top) ==
    IF i > Len(extrema) - 1 THEN None
    ELSE LET found == IF top THEN DoubleTopAt(prices, extrema[i], extrema[i + 1])
                      ELSE DoubleBottomAt(prices, extrema[i], extrema[i + 1])
         IN  IF found # None THEN found ELSE PairLoop(prices, extrema, i + 1, top)

RECURSIVE TripleLoop(_, _, _)
TripleLoop(prices, peaks, i) ==
    IF i > Len(peaks) - 2 THEN None
    ELSE LET found == HeadAndShouldersAt(prices, peaks[i], peaks[i + 1], peaks[i + 2])
         IN  IF found # None THEN found ELSE TripleLoop(prices, peaks, i + 1)

\* PatternDetector::detect_double_top
DetectDoubleTop(prices) ==
    IF Len(prices) < PatternMinCandles THEN Err("InsufficientData")
    ELSE LET peaks == FindPeaks(prices, 2)
         IN  IF Len(peaks) < 2 THEN Ok(None) ELSE Ok(PairLoop(prices, peaks, 1, TRUE))

\* PatternDetector::detect_double_bottom
DetectDoubleBottom(prices) ==
    IF Len(prices) < PatternMinCandles THEN Err("InsufficientData")
    ELSE LET troughs == FindTroughs(prices, 2)
         IN  IF Len(troughs) < 2 THEN Ok(None) ELSE Ok(PairLoop(prices, troughs, 1, FALSE))

\* PatternDetector::detect_head_and_shoulders
DetectHeadAndShoulders(prices) ==
    IF Len(prices) < PatternMinCandles THEN Err("InsufficientData")
    ELSE LET peaks == FindPeaks(prices, 3)
         IN  IF Len(peaks) < 3 THEN Ok(None) ELSE Ok(TripleLoop(prices, peaks, 1))

\* one detector is run on the window
Detect(detector, result) ==
    /\ analysis # None
    /\ analysis.detected = None
    /\ analysis' = [analysis EXCEPT !.detected =
                       Some([detector |-> detector, result |-> result])]
    /\ UNCHANGED off_analysis

RunDoubleTop == Detect("double_top", DetectDoubleTop(analysis.prices))
RunDoubleBottom == Detect("double_bottom", DetectDoubleBottom(analysis.prices))
RunHeadAndShoulders == Detect("head_and_shoulders", DetectHeadAndShoulders(analysis.prices))

\* ------------------------------------------------------------ MarketDataManager
\* MarketDataManager::new
NewManager(implementation, max_history_size) ==
    [implementation |-> implementation,
     max_history_size |-> max_history_size,
     current_data |-> DefaultMarketData,
     price_history |-> << >>,
     updates |-> << >>]

\* VecDeque::pop_front: nothing happens on an empty queue
PopFront(history) == IF history = << >> THEN history ELSE Tail(history)

\* update_market_data of main.rs: the oldest price leaves before the new one enters
PushHistoryMain(history, max_history_size, close_price) ==
    Append(IF Len(history) >= max_history_size THEN PopFront(history) ELSE history,
           close_price)

\* update_market_data of market_data_manager.rs: the new price enters, then the
\* oldest leaves
PushHistoryManager(history, max_history_size, close_price) ==
    LET pushed == Append(history, close_price)
    IN  IF Len(pushed) > max_history_size THEN PopFront(pushed) ELSE pushed

\* MarketDataManager::update_market_data
UpdateMarketData(implementation, data) ==
    /\ market # None
    /\ market.implementation = implementation
    /\ Len(market.updates) < MaxUpdates
    /\ market' = [market EXCEPT
          !.current_data = data,
          !.price_history =
              IF implementation = "main"
              THEN PushHistoryMain(@, market.max_history_size, data.close_price)
              ELSE PushHistoryManager(@, market.max_history_size, data.close_price),
          !.updates = Append(@, data)]
    /\ UNCHANGED << executor_vars, gate_vars, strategy_vars, sizing, analysis_vars,
                    system_vars, task_vars >>

UpdateMarketDataMain == \E data \in MarketDatas : UpdateMarketData("main", data)
UpdateMarketDataManager ==
    \E data \in MarketDatas : UpdateMarketData("market_data_manager", data)

\* MarketDataManager::get_price_history and get_current_data
GetPriceHistory == market.price_history
GetCurrentData == market.current_data

\* ------------------------------------------------------------ TradingStrategy
\* a / b as f64, b positive
FracDiv(a, b) == FracN(a.num * b.den, a.den * b.num)

\* gains[i] and losses[i] of ta::calculate_rsi, i >= 2 (the second price onward)
RsiGain(prices, i) ==
    IF prices[i] - prices[i - 1] > 0 THEN FracN(prices[i] - prices[i - 1], 1)
    ELSE FracN(0, 1)
RsiLoss(prices, i) ==
    IF prices[i] - prices[i - 1] > 0 THEN FracN(0, 1)
    ELSE FracN(prices[i - 1] - prices[i], 1)

\* iter().skip(1).take(period).sum() over gains (losses)
RECURSIVE RsiFirstSum(_, _, _)
RsiFirstSum(prices, n, gain) ==
    IF n = 0 THEN FracN(0, 1)
    ELSE FracAdd(RsiFirstSum(prices, n - 1, gain),
                 IF gain THEN RsiGain(prices, n + 1) ELSE RsiLoss(prices, n + 1))

\* the smoothing loop of ta::calculate_rsi
RECURSIVE RsiSmooth(_, _, _, _, _)
RsiSmooth(prices, smoothing_factor, i, average, gain) ==
    IF i > Len(prices) THEN average
    ELSE LET change == IF gain THEN RsiGain(prices, i) ELSE RsiLoss(prices, i)
             next == FracAdd(FracMul(change, smoothing_factor),
                             FracMul(average, FracSub(FracN(1, 1), smoothing_factor)))
         IN  RsiSmooth(prices, smoothing_factor, i + 1, next, gain)

\* ta::calculate_rsi
TaCalculateRsi(prices, period) ==
    IF Len(prices) < period + 1 THEN None
    ELSE LET smoothing_factor == FracN(2, period + 1)
             avg_gain == RsiSmooth(prices, smoothing_factor, period + 2,
                                   FracDivInt(RsiFirstSum(prices, period, TRUE), period),
                                   TRUE)
             avg_loss == RsiSmooth(prices, smoothing_factor, period + 2,
                                   FracDivInt(RsiFirstSum(prices, period, FALSE), period),
                                   FALSE)
         IN  IF avg_loss.num = 0 THEN Some(FracN(100, 1))
             ELSE LET rs == FracDiv(avg_gain, avg_loss)
                  IN  Some(FracSub(FracN(100, 1),
                                   FracDiv(FracN(100, 1), FracAdd(FracN(1, 1), rs))))

\* ema.last().copied()
LastOf(series) == IF series = << >> THEN None ELSE Some(series[Len(series)])

\* TradingStrategy::calculate_indicators
CalculateIndicators(config, prices) ==
    [rsi |-> TaCalculateRsi(prices, config.rsi_period),
     fast_ema |-> LastOf(TaCalculateEma(Floats(prices), config.ema_fast_period)),
     slow_ema |-> LastOf(TaCalculateEma(Floats(prices), config.ema_slow_period))]

\* price_change_pct of determine_action
PriceChangePct(market_data) ==
    IF market_data.open_price # 0
    THEN FracN((market_data.last_price - market_data.open_price) * 100,
               market_data.open_price)
    ELSE FracN(0, 1)

\* TradingStrategy::determine_action
DetermineAction(implementation, config, market_data, indicators) ==
    LET price_change_pct == PriceChangePct(market_data)
        dip == FracLt(price_change_pct, FracN(config.buy_threshold, 1))
        spike == FracGt(price_change_pct, FracN(config.sell_threshold, 1))
    IN  IF indicators.rsi # None /\ indicators.fast_ema # None /\ indicators.slow_ema # None
        THEN LET rsi_value == Unwrap(indicators.rsi)
                 fast == Unwrap(indicators.fast_ema)
                 slow == Unwrap(indicators.slow_ema)
             IN  IF FracLt(rsi_value, FracN(RsiOversold, 1)) /\ FracGt(fast, slow) /\ dip
                 THEN "Buy"
                 ELSE IF /\ FracGt(rsi_value, FracN(RsiOverbought, 1))
                         /\ FracLt(fast, slow) /\ spike
                 THEN "Sell"
                 ELSE "Hold"
        ELSE IF implementation = "trading_strategy" THEN "Hold"
        ELSE IF dip THEN "Buy"
        ELSE IF spike THEN "Sell"
        ELSE "Hold"

\* TradingStrategy::analyze
StrategyAnalyze(implementation, config, market_data, price_history) ==
    LET needed == IF config.rsi_period >= config.ema_slow_period
                  THEN config.rsi_period ELSE config.ema_slow_period
    IN  IF Len(price_history) < needed THEN None
        ELSE Some([action |-> DetermineAction(implementation, config, market_data,
                                              CalculateIndicators(config, price_history)),
                   price |-> market_data.last_price])

\* one call of analyze
Analyze ==
    /\ analysis # None
    /\ analysis.analyzed = None
    /\ analysis' = [analysis EXCEPT !.analyzed =
          Some(StrategyAnalyze(analysis.implementation, analysis.config,
                               analysis.market_data, analysis.prices))]
    /\ UNCHANGED off_analysis


\* ------------------------------------------------------------ locks and threads
\* The engine's five std::sync::Mutex locks (execution.rs 141-151). lock() blocks the
\* calling thread until the holder releases; a task suspended at an .await keeps the
\* guards it holds and runs again only when a thread polls it.
Mutexes == {"positions", "trades", "risk_params", "daily_pnl", "trade_count"}

RuntimeTasks == {"execute_signal_1", "execute_signal_2", "update_risk_parameters",
                 "market_data_consumer", "position_monitor"}
SignalTasks == {"execute_signal_1", "execute_signal_2"}
LoopTasks == {"market_data_consumer", "position_monitor"}

Lock(m) == [op |-> "lock", on |-> m]
Unlock(m) == [op |-> "unlock", on |-> m]
Await(what) == [op |-> "await", on |-> what]

\* should_execute_signal: the Position check, then the risk checks under risk_params
ShouldExecuteSignalOps ==
    << Lock("positions"), Unlock("positions"),
       Lock("risk_params"),
       Lock("positions"), Unlock("positions"),
       Lock("trade_count"), Unlock("trade_count"),
       Lock("daily_pnl"), Unlock("daily_pnl"),
       Unlock("risk_params") >>

\* should_execute_signal with a Position open for the symbol: it returns inside the
\* first block
PositionCheckOps == << Lock("positions"), Unlock("positions") >>

\* calculate_order_size: the risk_params guard lives to the end of the function, across
\* the awaited balance query
CalculateOrderSizeOps ==
    << Lock("risk_params"), Await("get_balance"), Unlock("risk_params") >>

\* process_filled_order, the opening branch: risk_params is held to the end of the branch
OpeningOps ==
    << Lock("positions"), Unlock("positions"),
       Lock("risk_params"),
       Lock("positions"), Unlock("positions"),
       Lock("trades"), Lock("trade_count"), Unlock("trade_count"), Unlock("trades"),
       Unlock("risk_params") >>

\* process_filled_order, the closing branch
ClosingOps ==
    << Lock("positions"), Unlock("positions"),
       Lock("positions"), Unlock("positions"),
       Lock("trades"), Unlock("trades"),
       Lock("daily_pnl"), Unlock("daily_pnl") >>

\* execute_signal: a signal that opens, one that closes, one refused at the Position check
ExecuteSignalOps ==
    { ShouldExecuteSignalOps \o CalculateOrderSizeOps \o << Await("place_order") >>
          \o OpeningOps,
      PositionCheckOps \o CalculateOrderSizeOps \o << Await("place_order") >>
          \o ClosingOps,
      PositionCheckOps }

\* update_risk_parameters
UpdateRiskParametersOps == << Lock("risk_params"), Unlock("risk_params") >>

\* the market-data consumer of start(): one turn of its loop
ConsumerOps == << Await("recv"), Lock("positions"), Unlock("positions") >>

\* the Position Monitor: one turn of its loop that closes one Position
MonitorOps ==
    << Await("tick"), Lock("positions"), Unlock("positions"),
       Await("place_order"),
       Lock("positions"), Unlock("positions"),
       Lock("trades"), Lock("daily_pnl"), Unlock("daily_pnl"), Unlock("trades") >>

IdleTask == [ops |-> << >>, pc |-> 1, on_thread |-> FALSE]

\* a TradeExecutor whose tasks are polled by `workers` threads, before any task runs
NewRuntime(workers) ==
    [workers |-> workers,
     locks |-> [m \in Mutexes |-> "free"],
     tasks |-> [t \in RuntimeTasks |-> IdleTask]]

Task(t) == runtime.tasks[t]
AtOp(t) == Task(t).ops[Task(t).pc]
HasOp(t) == Task(t).pc <= Len(Task(t).ops)
BusyThreads == Cardinality({t \in RuntimeTasks : Task(t).on_thread})

\* t is inside lock(): it occupies its thread until the holder releases
Blocked(t) ==
    /\ Task(t).on_thread
    /\ HasOp(t)
    /\ AtOp(t).op = "lock"
    /\ runtime.locks[AtOp(t).on] # "free"

StartTask(t, ops) ==
    /\ runtime # None
    /\ Task(t).ops = << >>
    /\ runtime' = [runtime EXCEPT !.tasks[t] = [ops |-> ops, pc |-> 1, on_thread |-> FALSE]]
    /\ UNCHANGED << off_tasks, broadcast, processor, bot >>

\* a caller invokes execute_signal
CallExecuteSignal == \E t \in SignalTasks, ops \in ExecuteSignalOps : StartTask(t, ops)

\* a caller invokes update_risk_parameters
CallUpdateRiskParameters == StartTask("update_risk_parameters", UpdateRiskParametersOps)

\* start(): tokio::spawn of the consumer and of the monitor
SpawnLoops ==
    /\ runtime # None
    /\ \A t \in LoopTasks : Task(t).ops = << >>
    /\ runtime' = [runtime EXCEPT
          !.tasks["market_data_consumer"] = [IdleTask EXCEPT !.ops = ConsumerOps],
          !.tasks["position_monitor"] = [IdleTask EXCEPT !.ops = MonitorOps]]
    /\ UNCHANGED << off_tasks, broadcast, processor, bot >>

\* a free thread polls a task that is ready to run
PollTask(t) ==
    /\ runtime # None
    /\ Task(t).ops # << >>
    /\ ~Task(t).on_thread
    /\ BusyThreads < runtime.workers
    /\ runtime' = [runtime EXCEPT !.tasks[t].on_thread = TRUE]
    /\ UNCHANGED << off_tasks, broadcast, processor, bot >>

\* lock() returns: the mutex was free
AcquireLock(t) ==
    /\ runtime # None
    /\ Task(t).on_thread
    /\ HasOp(t)
    /\ AtOp(t).op = "lock"
    /\ runtime.locks[AtOp(t).on] = "free"
    /\ runtime' = [runtime EXCEPT !.locks[AtOp(t).on] = t, !.tasks[t].pc = @ + 1]
    /\ UNCHANGED << off_tasks, broadcast, processor, bot >>

\* the guard is dropped
ReleaseLock(t) ==
    /\ runtime # None
    /\ Task(t).on_thread
    /\ HasOp(t)
    /\ AtOp(t).op = "unlock"
    /\ runtime' = [runtime EXCEPT !.locks[AtOp(t).on] = "free", !.tasks[t].pc = @ + 1]
    /\ UNCHANGED << off_tasks, broadcast, processor, bot >>

\* .await on a future that is not ready: the task leaves its thread, keeping its guards
AwaitPending(t) ==
    /\ runtime # None
    /\ Task(t).on_thread
    /\ HasOp(t)
    /\ AtOp(t).op = "await"
    /\ runtime' = [runtime EXCEPT !.tasks[t].pc = @ + 1, !.tasks[t].on_thread = FALSE]
    /\ UNCHANGED << off_tasks, broadcast, processor, bot >>

\* the function returns; a loop starts its next turn
FinishTask(t) ==
    /\ runtime # None
    /\ Task(t).on_thread
    /\ ~HasOp(t)
    /\ runtime' = [runtime EXCEPT !.tasks[t] =
          IF t \in LoopTasks THEN [@ EXCEPT !.pc = 1] ELSE IdleTask]
    /\ UNCHANGED << off_tasks, broadcast, processor, bot >>


\* ------------------------------------------------------------ the market-data channel
\* MarketDataProcessor::new and subscribe: the channel with the consumer's receiver on
\* it. queue holds what the receiver has not read; lagged says that a value it had not
\* read was overwritten.
NewBroadcast ==
    [open |-> TRUE, queue |-> << >>, lagged |-> FALSE, last_sent |-> 0,
     consumer |-> "running"]

\* update_market_data: data_tx.send(data). A full buffer drops its oldest value; with
\* no receiver left send returns an error, which is logged.
BroadcastSend(last_price) ==
    /\ broadcast # None
    /\ broadcast.open
    /\ last_price >= broadcast.last_sent
    /\ broadcast' =
          IF broadcast.consumer = "terminated"
          THEN [broadcast EXCEPT !.last_sent = last_price]
          ELSE IF Len(broadcast.queue) = BroadcastCapacity
          THEN [broadcast EXCEPT !.queue = Append(Tail(@), last_price),
                                 !.lagged = TRUE,
                                 !.last_sent = last_price]
          ELSE [broadcast EXCEPT !.queue = Append(@, last_price),
                                 !.last_sent = last_price]
    /\ UNCHANGED << off_tasks, runtime, processor, bot >>

UpdateAndNotify == \E last_price \in BroadcastPrices : BroadcastSend(last_price)

\* the last sender is dropped
BroadcastClose ==
    /\ broadcast # None
    /\ broadcast.open
    /\ broadcast' = [broadcast EXCEPT !.open = FALSE]
    /\ UNCHANGED << off_tasks, runtime, processor, bot >>

\* market_data_rx.recv().await: Err(Lagged) once after values were overwritten, then the
\* oldest value kept; Err(Closed) when the channel is closed and empty
Recv ==
    IF broadcast.lagged THEN Err("Lagged")
    ELSE IF broadcast.queue # << >> THEN Ok(Head(broadcast.queue))
    ELSE IF ~broadcast.open THEN Err("Closed")
    ELSE None

\* one turn of `while let Ok(data) = market_data_rx.recv().await`: the price is applied
ConsumerApplies ==
    /\ broadcast # None
    /\ broadcast.consumer = "running"
    /\ Recv # None
    /\ Recv.ok
    /\ broadcast' = [broadcast EXCEPT !.queue = Tail(@)]
    /\ positions' =
          IF ContainsKey(positions, BroadcastSymbol)
          THEN [positions EXCEPT ![BroadcastSymbol] = CalculatePnl(@, Recv.value)]
          ELSE positions
    /\ UNCHANGED << trades, daily_pnl, trade_count, risk_params, risk_lock, started,
                    calls, monitor, order_seq >>
    /\ UNCHANGED << gate_vars, strategy_vars, sizing, analysis_vars, system_vars,
                    market_vars, runtime, processor, bot >>

\* recv() returns an error: the while-let loop ends and the task with it
ConsumerEnds ==
    /\ broadcast # None
    /\ broadcast.consumer = "running"
    /\ Recv # None
    /\ ~Recv.ok
    /\ broadcast' = [broadcast EXCEPT !.consumer = "terminated", !.lagged = FALSE]
    /\ UNCHANGED << off_tasks, runtime, processor, bot >>


\* ------------------------------------------------------------ SignalProcessor (signals.rs)
\* SignalProcessor::new: not running, no loop spawned. A loop is at its `while` test
\* ("check"), at timer.tick().await ("tick"), running the strategies ("evaluate"), or
\* has left the loop ("ended"); stopped says that stop() was called during its life,
\* survived that it passed the `while` test after that.
NewSignalProcessor == [running |-> FALSE, loops |-> << >>, start_result |-> None]

NewLoop == [state |-> "check", stopped |-> FALSE, survived |-> FALSE]

\* start(): an error while running is set; otherwise running is set and a loop spawned
StartProcessor ==
    /\ processor # None
    /\ IF processor.running
       THEN processor' = [processor EXCEPT
                !.start_result = Some(Err("Signal processor already running"))]
       ELSE /\ Len(processor.loops) < MaxLoops
            /\ processor' = [processor EXCEPT
                  !.running = TRUE,
                  !.loops = Append(@, NewLoop),
                  !.start_result = Some(Ok("unit"))]
    /\ UNCHANGED << off_tasks, runtime, broadcast, bot >>

\* stop(): clears running
StopProcessor ==
    /\ processor # None
    /\ processor' = [processor EXCEPT
          !.running = FALSE,
          !.loops = [i \in DOMAIN @ |->
                        IF @[i].state # "ended" THEN [@[i] EXCEPT !.stopped = TRUE]
                        ELSE @[i]]]
    /\ UNCHANGED << off_tasks, runtime, broadcast, bot >>

\* `while *running.lock().unwrap()`: the loop reads the flag all loops share
LoopCheck(i) ==
    /\ processor # None
    /\ i \in DOMAIN processor.loops
    /\ processor.loops[i].state = "check"
    /\ processor' = [processor EXCEPT !.loops[i] =
          IF processor.running
          THEN [@ EXCEPT !.state = "tick", !.survived = @ \/ processor.loops[i].stopped]
          ELSE [@ EXCEPT !.state = "ended"]]
    /\ UNCHANGED << off_tasks, runtime, broadcast, bot >>

\* timer.tick().await returns
LoopTick(i) ==
    /\ processor # None
    /\ i \in DOMAIN processor.loops
    /\ processor.loops[i].state = "tick"
    /\ processor' = [processor EXCEPT !.loops[i].state = "evaluate"]
    /\ UNCHANGED << off_tasks, runtime, broadcast, bot >>

\* the strategies have run on every symbol: back to the `while` test
LoopEvaluate(i) ==
    /\ processor # None
    /\ i \in DOMAIN processor.loops
    /\ processor.loops[i].state = "evaluate"
    /\ processor' = [processor EXCEPT !.loops[i].state = "check"]
    /\ UNCHANGED << off_tasks, runtime, broadcast, bot >>


\* ------------------------------------------------------------ RSIStrategy::analyze
\* the signal RSIStrategy::analyze builds from an RSI value: the action and the
\* confidence in percent, None between the thresholds
RsiSignal(rsi_value, strategy) ==
    LET oversold == strategy.oversold_threshold.v
        overbought == strategy.overbought_threshold.v
    IN  IF rsi_value <= oversold
        THEN Some([action |-> "Buy",
                   confidence |-> ((oversold - rsi_value) * 100) \div oversold])
        ELSE IF rsi_value >= overbought
        THEN Some([action |-> "Sell",
                   confidence |-> ((rsi_value - overbought) * 100) \div (100 - overbought)])
        ELSE None

\* a signal of the RSI strategy reaches execute_signal
ExecuteRsiSignal(c) ==
    \E rsi_value \in RsiValues, price \in SignalPrices :
        LET signal == RsiSignal(rsi_value, rsi) IN
        /\ signal # None
        /\ ExecuteSignal(c, "BTCUSDT", Unwrap(signal).action, Unwrap(signal).confidence,
                         price)


\* ------------------------------------------------------------ TradingBot (main.rs)
\* BinanceExchangeClient::new: not connected
NewClient == [connected |-> FALSE]

\* TradingBot::new with the client main() built: start() not yet called, no client for
\* the signal task yet
NewBot == [phase |-> "new", exchange |-> NewClient, exchange_for_processor |-> None]

\* ExchangeClient::connect: connected is set when both status queries succeed
Connect(client, status_ok) ==
    IF status_ok THEN [client EXCEPT !.connected = TRUE] ELSE client

\* the client TradingBot::start builds for the signal task: a new one from the
\* credentials, with its symbol set
ClientForProcessor == NewClient

\* ExchangeClient::send_order of BinanceExchangeClient
SendOrder(client, order) ==
    IF ~client.connected THEN Err("Not connected") ELSE Ok("Filled")

\* TradingBot::start up to its select!: connect()?, initialize_historical_data()?, the
\* streams, the client for the signal task, the spawned tasks
BotStart(status_ok, history_ok) ==
    /\ bot # None
    /\ bot.phase = "new"
    /\ bot' = LET exchange == Connect(bot.exchange, status_ok) IN
              IF ~status_ok THEN [bot EXCEPT !.phase = "failed"]
              ELSE IF ~history_ok THEN [bot EXCEPT !.phase = "failed", !.exchange = exchange]
              ELSE [bot EXCEPT !.phase = "running",
                               !.exchange = exchange,
                               !.exchange_for_processor =
                                   Some(ClientForProcessor)]
    /\ UNCHANGED << off_tasks, runtime, broadcast, processor >>

\* TradingBot::shutdown: exchange.disconnect()
BotShutdown ==
    /\ bot # None
    /\ bot.phase = "running"
    /\ bot' = [bot EXCEPT !.phase = "stopped", !.exchange.connected = FALSE]
    /\ UNCHANGED << off_tasks, runtime, broadcast, processor >>

\* the signal task is running
BotRunning == bot # None /\ bot.phase = "running"

\* ------------------------------------------------------------ specifications
Init ==
    /\ ExecutorInit
    /\ GateInit
    /\ StrategyInit
    /\ sizing = None
    /\ analysis = None
    /\ shutdown = "running"
    /\ market = None
    /\ runtime = None
    /\ broadcast = None
    /\ processor = None
    /\ bot = None

AveragePrices == { Some(p) : p \in Prices }

\* a call passes its last check, and so commits itself to an order, only within
\* `limit` orders
WithinOrders(c, limit) ==
    LET call == calls[c] IN
    /\ (/\ call.pc = "check_position"
        /\ ContainsKey(positions, call.symbol)
        /\ IsClosingSignal(positions[call.symbol].side, call.action))
          => OrdersCommitted < limit
    /\ (call.pc = "check_daily_pnl" /\ ~DailyLossLimitHit(daily_pnl, risk_params))
          => OrdersCommitted < limit

\* the steps of execute_signal
CallStep(c) ==
    \/ CheckPosition(c)
    \/ CheckOpenPositions(c)
    \/ CheckTradeCount(c)
    \/ CheckDailyPnl(c)
    \/ LockForOrderSize(c)
    \/ \E balance \in BalanceResults : PlaceOrder(c, balance)
    \/ OrderFails(c)
    \/ \E status \in OrderStatuses, q \in FillQuantities, a \in AveragePrices :
          OrderReturns(c, status, q, a)
    \/ InsertPosition(c)
    \/ RecordTrade(c)
    \/ RemovePosition(c)
    \/ RecordExit(c)
    \/ UpdateDailyPnl(c)
    \/ ReturnToCaller(c)

SignalStep(c) == WithinOrders(c, MaxOrders) /\ CallStep(c)

\* the tasks start() spawns
\* a tick within the orders of one behaviour
BoundedMonitorTick ==
    /\ OrdersCommitted + Cardinality(ClosingNow) <= MaxOrders
    /\ MonitorTick

Background ==
    \/ Start
    \/ \E symbol \in Symbols, p \in Prices : MarketDataUpdate(symbol, p)
    \/ BoundedMonitorTick
    \/ MonitorPlaceOrder
    \/ MonitorOrderFails
    \/ \E status \in OrderStatuses, a \in AveragePrices : MonitorOrderReturns(status, a)
    \/ MonitorRecordTrade

AllRiskParameters == RiskParameterChoices \cup {DefaultRiskParameters}

\* any number of execute_signal calls in flight
NewSignal(c) ==
    \E symbol \in Symbols, action \in TradeActions, confidence \in Confidences,
       price \in SignalPrices : ExecuteSignal(c, symbol, action, confidence, price)

\* calls still in should_execute_signal
ChecksPending ==
    Cardinality({c \in Calls : calls[c].pc \in {"check_position", "check_open_positions",
                                                "check_trade_count", "check_daily_pnl"}})

NoCallInFlight == \A c \in Calls : calls[c].pc = "idle"

\* Concurrent callers: any number of execute_signal calls in flight, beside the
\* background tasks; the risk parameters are set before the first signal.
Next ==
    \/ \E c \in Calls : OrdersCommitted + ChecksPending < MaxOrders /\ NewSignal(c)
    \/ \E c \in Calls : SignalStep(c)
    \/ Background
    \/ \E params \in AllRiskParameters :
          order_seq = 0 /\ NoCallInFlight /\ UpdateRiskParameters(params)

Spec == Init /\ [][Next]_vars

\* the one task that feeds signals to execute_signal
SignalConsumer == CHOOSE c \in Calls : TRUE

\* One signal consumer: a call begins when no other call is in flight, beside the
\* background tasks; the risk parameters are swapped at any time.
NextSeq ==
    \/ NoCallInFlight /\ NewSignal(SignalConsumer)
    \/ SignalStep(SignalConsumer)
    \/ Background
    \/ \E params \in AllRiskParameters : UpdateRiskParameters(params)

SpecSeq == Init /\ [][NextSeq]_vars

\* The monitor under fair scheduling with an exchange that accepts its close orders.
\* Positions are opened by signals of the one consumer and closed by the monitor alone:
\* a signal comes for a symbol with no Position, and only while the orders still
\* allowed leave room for the close order of every Position that is or may be opened.
LiveBudget == OrdersCommitted + ChecksPending + MapLen(positions) + 1 < MaxOrders

\* the steps of execute_signal for a symbol that has no Position
OpeningStep(c) ==
    /\ WithinOrders(c, MaxOrders)
    /\ \/ CheckPosition(c)
       \/ CheckOpenPositions(c)
       \/ CheckTradeCount(c)
       \/ CheckDailyPnl(c)
       \/ LockForOrderSize(c)
       \/ \E balance \in BalanceResults : PlaceOrder(c, balance)
       \/ OrderFails(c)
       \/ \E status \in OrderStatuses, q \in FillQuantities, a \in AveragePrices :
             OrderReturns(c, status, q, a)
       \/ InsertPosition(c)
       \/ RecordTrade(c)
       \/ ReturnToCaller(c)

MonitorOrderAccepted ==
    \E status \in OrderStatuses, average_price \in AveragePrices :
        MonitorOrderReturns(status, average_price)

NextLive ==
    \/ \E symbol \in Symbols \ DOMAIN positions, action \in TradeActions,
          confidence \in Confidences, price \in SignalPrices :
          /\ NoCallInFlight /\ LiveBudget
          /\ ExecuteSignal(SignalConsumer, symbol, action, confidence, price)
    \/ OpeningStep(SignalConsumer)
    \/ Start
    \/ \E symbol \in Symbols, last_price \in Prices : MarketDataUpdate(symbol, last_price)
    \/ BoundedMonitorTick
    \/ MonitorPlaceOrder
    \/ MonitorOrderAccepted
    \/ MonitorRecordTrade

\* interval.tick() fires every second and the spawned task is scheduled; the exchange
\* answers every order it was sent
MonitorFairness ==
    /\ WF_vars(BoundedMonitorTick)
    /\ WF_vars(MonitorPlaceOrder)
    /\ WF_vars(MonitorOrderAccepted)
    /\ WF_vars(MonitorRecordTrade)

SpecLive == Init /\ [][NextLive]_vars /\ MonitorFairness

\* The signal gate of main.rs alone: signals of any symbol and action arrive at any
\* second.
NextGate ==
    \/ \E symbol \in Symbols, action \in TradeActions : ReceiveSignal(symbol, action)
    \/ \E d \in Elapsed : Elapse(d)

SpecGate == Init /\ [][NextGate]_vars

\* calculate_order_size alone, on each of its arguments
InitSizing ==
    /\ ExecutorInit
    /\ GateInit
    /\ StrategyInit
    /\ sizing \in SizingInputs
    /\ analysis = None
    /\ shutdown = "running"
    /\ market = None
    /\ runtime = None
    /\ broadcast = None
    /\ processor = None
    /\ bot = None

SpecSizing == InitSizing /\ [][ComputeOrderSize]_vars

\* the strategies' update_parameter, called in any order with any argument
InitStrategies ==
    /\ ExecutorInit
    /\ GateInit
    /\ sma \in SMAConfigs
    /\ macd \in MACDConfigs
    /\ rsi \in RSIConfigs
    /\ update_result = None
    /\ sizing = None
    /\ analysis = None
    /\ shutdown = "running"
    /\ market = None
    /\ runtime = None
    /\ broadcast = None
    /\ processor = None
    /\ bot = None

NextStrategies ==
    \/ \E name \in ParameterNames, value \in ParameterValues : SMAUpdateParameter(name, value)
    \/ \E name \in ParameterNames, value \in ParameterValues : MACDUpdateParameter(name, value)
    \/ \E name \in ParameterNames, value \in ParameterValues : RSIUpdateParameter(name, value)

SpecStrategies == InitStrategies /\ [][NextStrategies]_vars

\* SMACrossoverStrategy::analyze on every prefix of every candle history
InitSMA ==
    /\ ExecutorInit
    /\ GateInit
    /\ StrategyInit
    /\ sizing = None
    /\ analysis = [prices |-> << >>, signals |-> << >>]
    /\ shutdown = "running"
    /\ market = None
    /\ runtime = None
    /\ broadcast = None
    /\ processor = None
    /\ bot = None

NextSMA == \E price \in CandlePrices : SMAAnalyzeNext(price)

SpecSMA == InitSMA /\ [][NextSMA]_vars

\* The Position Monitor with two Positions to look after.  The engine has opened a long
\* of quantity 1 at 100 on each symbol (orders 1 and 2) under the default risk
\* parameters; start() has not been called yet and no signal arrives.
LongAt100(symbol) ==
    [NewPosition(symbol, "Buy", 1, 100) EXCEPT
        !.stop_loss = Some(StopLoss("Buy", 100, DefaultRiskParameters)),
        !.take_profit = Some(TakeProfit("Buy", 100, DefaultRiskParameters))]

TwoPositionsOpen ==
    /\ positions = [s \in Symbols |-> LongAt100(s)]
    /\ trades = << EntryTrade("BTCUSDT", "Buy", 1, 100, 1),
                   EntryTrade("ETHUSDT", "Buy", 1, 100, 2) >>
    /\ risk_params = DefaultRiskParameters
    /\ daily_pnl = 0
    /\ trade_count = 2
    /\ risk_lock = 0
    /\ started = FALSE
    /\ calls = [c \in Calls |-> IdleCall]
    /\ monitor = MonitorNext(<< >>)
    /\ order_seq = 2

InitMonitor ==
    /\ TwoPositionsOpen
    /\ GateInit
    /\ StrategyInit
    /\ sizing = None
    /\ analysis = None
    /\ shutdown = "running"
    /\ market = None
    /\ runtime = None
    /\ broadcast = None
    /\ processor = None
    /\ bot = None

NextMonitor ==
    \/ Start
    \/ \E symbol \in Symbols, last_price \in Prices : MarketDataUpdate(symbol, last_price)
    \/ order_seq + Cardinality(ClosingNow) <= MaxMonitorOrders /\ MonitorTick
    \/ MonitorPlaceOrder
    \/ MonitorOrderFails
    \/ MonitorOrderAccepted
    \/ MonitorRecordTrade

SpecMonitor == InitMonitor /\ [][NextMonitor]_vars

\* The engine with one signal consumer and its background tasks, up to and through the
\* shutdown of the process.
NextShutdown ==
    \/ Alive /\ NoCallInFlight /\ NewSignal(SignalConsumer)
    \/ Alive /\ SignalStep(SignalConsumer)
    \/ Alive /\ Start
    \/ \E symbol \in Symbols, p \in Prices : Alive /\ MarketDataUpdate(symbol, p)
    \/ Alive /\ BoundedMonitorTick
    \/ Alive /\ MonitorPlaceOrder
    \/ Alive /\ MonitorOrderFails
    \/ Alive /\ MonitorOrderAccepted
    \/ Alive /\ MonitorRecordTrade
    \/ BeginShutdown
    \/ Teardown

SpecShutdown == Init /\ [][NextShutdown]_vars

\* The indicator functions, each on every series of prices and with every period.
RECURSIVE SeqsUpTo(_, _)
SeqsUpTo(S, n) ==
    IF n = 0 THEN { << >> }
    ELSE LET shorter == SeqsUpTo(S, n - 1)
         IN  shorter \cup { Append(q, x) : q \in shorter, x \in S }

InitIndicators ==
    /\ ExecutorInit
    /\ GateInit
    /\ StrategyInit
    /\ sizing = None
    /\ analysis \in [prices : SeqsUpTo(CandlePrices, MaxPrices), call : {None}]
    /\ shutdown = "running"
    /\ market = None
    /\ runtime = None
    /\ broadcast = None
    /\ processor = None
    /\ bot = None

NextIndicators ==
    \/ \E period \in 1 .. MaxPeriod : CallSma(period)
    \/ \E period \in 1 .. MaxPeriod : CallEma(period)
    \/ \E fast_period, slow_period \in 1 .. MaxPeriod, signal_period \in 1 .. 2 :
          CallMacd(fast_period, slow_period, signal_period)
    \/ \E period \in 1 .. MaxPeriod : CallTaEma(period)

SpecIndicators == InitIndicators /\ [][NextIndicators]_vars

\* The pattern detectors, each on every window of candles.
InitPatterns ==
    /\ ExecutorInit
    /\ GateInit
    /\ StrategyInit
    /\ sizing = None
    /\ analysis \in [prices : SeqsUpTo(PatternPrices, MaxWindow), detected : {None}]
    /\ shutdown = "running"
    /\ market = None
    /\ runtime = None
    /\ broadcast = None
    /\ processor = None
    /\ bot = None

NextPatterns ==
    \/ RunDoubleTop
    \/ RunDoubleBottom
    \/ RunHeadAndShoulders

SpecPatterns == InitPatterns /\ [][NextPatterns]_vars

\* A MarketDataManager of either definition and of every size, receiving updates.
InitMarketData ==
    /\ ExecutorInit
    /\ GateInit
    /\ StrategyInit
    /\ sizing = None
    /\ analysis = None
    /\ shutdown = "running"
    /\ market \in { NewManager(implementation, size) :
                       implementation \in ManagerImplementations, size \in 0 .. MaxHistory }
    /\ runtime = None
    /\ broadcast = None
    /\ processor = None
    /\ bot = None

NextMarketData ==
    \/ UpdateMarketDataMain
    \/ UpdateMarketDataManager

SpecMarketData == InitMarketData /\ [][NextMarketData]_vars

\* TradingStrategy::analyze on every price history, market data and periods.
InitAnalyze ==
    /\ ExecutorInit
    /\ GateInit
    /\ StrategyInit
    /\ sizing = None
    /\ shutdown = "running"
    /\ market = None
    /\ runtime = None
    /\ broadcast = None
    /\ processor = None
    /\ bot = None
    /\ analysis \in
          [prices : SeqsUpTo(CandlePrices, MaxPrices),
           market_data : [open_price : StrategyOpenPrices,
                          last_price : StrategyLastPrices],
           config : [rsi_period : 1 .. MaxPeriod,
                     ema_fast_period : 1 .. MaxPeriod,
                     ema_slow_period : 1 .. MaxPeriod,
                     buy_threshold : {DefaultBuyThreshold},
                     sell_threshold : {DefaultSellThreshold}],
           implementation : StrategyImplementations,
           analyzed : {None}]

NextAnalyze == Analyze

SpecAnalyze == InitAnalyze /\ [][NextAnalyze]_vars

\* The engine with a Position to close.  A signal has opened a long of quantity 1 at
\* 100 on BTCUSDT (order 1) under the default risk parameters and start() has been
\* called; the one signal consumer goes on delivering signals for that symbol while the
\* market-data consumer and the Position Monitor run.
OnePositionOpen ==
    /\ positions = [s \in {"BTCUSDT"} |-> LongAt100(s)]
    /\ trades = << EntryTrade("BTCUSDT", "Buy", 1, 100, 1) >>
    /\ risk_params = DefaultRiskParameters
    /\ daily_pnl = 0
    /\ trade_count = 1
    /\ risk_lock = 0
    /\ started = TRUE
    /\ calls = [c \in Calls |-> IdleCall]
    /\ monitor = MonitorNext(<< >>)
    /\ order_seq = 1

InitClose ==
    /\ OnePositionOpen
    /\ GateInit
    /\ StrategyInit
    /\ sizing = None
    /\ analysis = None
    /\ shutdown = "running"
    /\ market = None
    /\ runtime = None
    /\ broadcast = None
    /\ processor = None
    /\ bot = None

NextClose ==
    \/ \E action \in TradeActions, confidence \in Confidences, price \in SignalPrices :
          /\ NoCallInFlight
          /\ ExecuteSignal(SignalConsumer, "BTCUSDT", action, confidence, price)
    \/ WithinOrders(SignalConsumer, MaxCloseOrders) /\ CallStep(SignalConsumer)
    \/ \E last_price \in Prices : MarketDataUpdate("BTCUSDT", last_price)
    \/ OrdersCommitted + Cardinality(ClosingNow) <= MaxCloseOrders /\ MonitorTick
    \/ MonitorPlaceOrder
    \/ MonitorOrderFails
    \/ MonitorOrderAccepted
    \/ MonitorRecordTrade

SpecClose == InitClose /\ [][NextClose]_vars


\* The engine's tasks on 1 .. MaxWorkers threads: two execute_signal calls,
\* update_risk_parameters, the market-data consumer and the Position Monitor. A future
\* that holds a std::sync::MutexGuard across an .await is not Send, so concurrent
\* execute_signal calls are polled where they were created; how many threads do that
\* is the embedding's choice.
InitRuntime ==
    /\ ExecutorInit
    /\ GateInit
    /\ StrategyInit
    /\ sizing = None
    /\ analysis = None
    /\ shutdown = "running"
    /\ market = None
    /\ runtime \in { NewRuntime(workers) : workers \in 1 .. MaxWorkers }
    /\ broadcast = None
    /\ processor = None
    /\ bot = None

NextRuntime ==
    \/ CallExecuteSignal
    \/ CallUpdateRiskParameters
    \/ SpawnLoops
    \/ \E t \in RuntimeTasks : PollTask(t)
    \/ \E t \in RuntimeTasks : AcquireLock(t)
    \/ \E t \in RuntimeTasks : ReleaseLock(t)
    \/ \E t \in RuntimeTasks : AwaitPending(t)
    \/ \E t \in RuntimeTasks : FinishTask(t)

SpecRuntime == InitRuntime /\ [][NextRuntime]_vars


\* The market-data consumer of start() on the processor's broadcast channel, with one
\* long Position open at 100.
InitBroadcast ==
    /\ OnePositionOpen
    /\ GateInit
    /\ StrategyInit
    /\ sizing = None
    /\ analysis = None
    /\ shutdown = "running"
    /\ market = None
    /\ runtime = None
    /\ broadcast = NewBroadcast
    /\ processor = None
    /\ bot = None

NextBroadcast ==
    \/ UpdateAndNotify
    \/ BroadcastClose
    \/ ConsumerApplies
    \/ ConsumerEnds

SpecBroadcast == InitBroadcast /\ [][NextBroadcast]_vars


\* Any sequence of start and stop calls on a SignalProcessor, with its loops running.
InitProcessor ==
    /\ ExecutorInit
    /\ GateInit
    /\ StrategyInit
    /\ sizing = None
    /\ analysis = None
    /\ shutdown = "running"
    /\ market = None
    /\ runtime = None
    /\ broadcast = None
    /\ processor = NewSignalProcessor
    /\ bot = None

NextProcessor ==
    \/ StartProcessor
    \/ StopProcessor
    \/ \E i \in 1 .. MaxLoops : LoopCheck(i)
    \/ \E i \in 1 .. MaxLoops : LoopTick(i)
    \/ \E i \in 1 .. MaxLoops : LoopEvaluate(i)

SpecProcessor == InitProcessor /\ [][NextProcessor]_vars


\* The signals of the RSI strategy, executed one after the other.
NextSignals ==
    \/ NoCallInFlight /\ ExecuteRsiSignal(SignalConsumer)
    \/ SignalStep(SignalConsumer)

SpecSignals == Init /\ [][NextSignals]_vars


\* TradingBot::start, then the signal task receiving signals, then shutdown.
InitBot ==
    /\ ExecutorInit
    /\ GateInit
    /\ StrategyInit
    /\ sizing = None
    /\ analysis = None
    /\ shutdown = "running"
    /\ market = None
    /\ runtime = None
    /\ broadcast = None
    /\ processor = None
    /\ bot = NewBot

NextBot ==
    \/ \E status_ok, history_ok \in BOOLEAN : BotStart(status_ok, history_ok)
    \/ BotRunning /\ \E symbol \in Symbols, action \in TradeActions :
                        ReceiveSignal(symbol, action)
    \/ BotRunning /\ \E d \in Elapsed : Elapse(d)
    \/ BotShutdown

SpecBot == InitBot /\ [][NextBot]_vars

\* ------------------------------------------------------------ properties
\* the positions of should_execute_signal's risk checks
RiskCheckPcs == {"check_open_positions", "check_trade_count", "check_daily_pnl"}

\* the opening branch of process_filled_order
OpeningBranch == {"open_position", "record_trade"}

\* call c goes from one of the positions `from` to position `to` in this step
Moves(c, from, to) == calls[c].pc \in from /\ calls'[c].pc = to

\* this step submits no order and writes nothing to the engine's tables
NoEffect == UNCHANGED << positions, trades, daily_pnl, trade_count, order_seq >>

\* C1: signals fed one at a time never double-open: the opening branch of
\* process_filled_order inserts a Position (and then records its entry Trade) only
\* when the symbol has no Position, so no opening fill is recorded on top of an open
\* Position; the Position map holds at most one Position per symbol.
C1_NoDoubleOpen ==
    [][\A c \in Calls :
          Moves(c, {"open_position"}, "record_trade")
             => /\ calls[c].symbol \notin DOMAIN positions
                /\ DOMAIN positions' = DOMAIN positions \cup {calls[c].symbol}
                /\ \A s \in DOMAIN positions : positions'[s] = positions[s]]_vars

\* C1 witness: a Position is open and a second signal in the same direction for the
\* same symbol has been through execute_signal without opening anything.
C1_Witness ==
    \E c \in Calls :
        /\ calls[c].pc = "return" /\ calls[c].ret = "Ok(None)"
        /\ calls[c].action = "Buy"
        /\ calls[c].symbol \in DOMAIN positions
        /\ positions[calls[c].symbol].side = "Buy"
        /\ Len(trades) = 1 /\ trade_count = 1

\* C2: of two concurrent calls for the same symbol at most one opens: never are two
\* calls for one symbol both in the opening branch of process_filled_order.
C2_AtomicCheckAndInsert ==
    \A c, d \in Calls :
        (c # d /\ calls[c].symbol = calls[d].symbol)
            => ~(calls[c].pc \in OpeningBranch /\ calls[d].pc \in OpeningBranch)

\* C3: in every interleaving of concurrent calls the number of open Positions stays
\* within max_open_positions (of two signals that race for the last free slot at most
\* one opens a Position).
C3_OpenPositionsBounded == MapLen(positions) <= risk_params.max_open_positions

\* C4: a signal for a symbol with no Position is accepted only if, at the moment it
\* is accepted, open positions < max_open_positions, trade_count < max_trades_per_day
\* and daily_pnl > -max_daily_loss; a check that fails ends the call with Ok(None),
\* no order and no change of state.
C4_RiskGate ==
    [][\A c \in Calls :
          /\ Moves(c, RiskCheckPcs, "calculate_order_size")
                => /\ Cardinality(DOMAIN positions) < risk_params.max_open_positions
                   /\ trade_count < risk_params.max_trades_per_day
                   /\ daily_pnl > 0 - risk_params.max_daily_loss
          /\ ( \/ /\ calls[c].pc = "check_open_positions" /\ calls'[c].pc # "check_open_positions"
                  /\ Cardinality(DOMAIN positions) >= risk_params.max_open_positions
               \/ /\ calls[c].pc = "check_trade_count" /\ calls'[c].pc # "check_trade_count"
                  /\ trade_count >= risk_params.max_trades_per_day
               \/ /\ calls[c].pc = "check_daily_pnl" /\ calls'[c].pc # "check_daily_pnl"
                  /\ daily_pnl <= 0 - risk_params.max_daily_loss )
                => /\ calls'[c].pc = "return" /\ calls'[c].ret = "Ok(None)"
                   /\ NoEffect]_vars

\* C4 witness: max_open_positions = 1, one Position open, and a Buy for the other
\* symbol has been rejected.
C4_Witness ==
    \E c \in Calls :
        /\ calls[c].pc = "return" /\ calls[c].ret = "Ok(None)"
        /\ calls[c].action = "Buy"
        /\ calls[c].symbol \notin DOMAIN positions
        /\ risk_params.max_open_positions = 1
        /\ MapLen(positions) = 1
        /\ order_seq = 1

\* C5 as claimed: once trade_count has reached max_trades_per_day no signal at all is
\* accepted.
C5_NoSignalAtLimit ==
    [][\A c \in Calls :
          (calls[c].pc \in {"check_position"} \cup RiskCheckPcs
             /\ trade_count >= risk_params.max_trades_per_day)
                => calls'[c].pc # "calculate_order_size"]_vars

\* C5 amended: once trade_count has reached max_trades_per_day no signal for a symbol
\* without a Position (an opening signal) is accepted, whatever else holds: it ends
\* with Ok(None) and no order.  The closing signal of an open Position is exempt.
C5_NoOpeningAtLimit ==
    [][\A c \in Calls :
          (calls[c].pc \in RiskCheckPcs /\ calls'[c] # calls[c]
             /\ trade_count >= risk_params.max_trades_per_day)
                => /\ calls'[c].pc \in RiskCheckPcs \cup {"return"}
                   /\ calls'[c].pc = "return" => calls'[c].ret = "Ok(None)"
                   /\ NoEffect]_vars

\* C5 witness: the counter is at its limit, a slot is free and the loss limit is not
\* hit, and an opening signal has been rejected.
C5_Witness ==
    \E c \in Calls :
        /\ calls[c].pc = "return" /\ calls[c].ret = "Ok(None)"
        /\ calls[c].action \in {"Buy", "Sell"}
        /\ calls[c].symbol \notin DOMAIN positions
        /\ trade_count = risk_params.max_trades_per_day
        /\ MapLen(positions) = 1 /\ risk_params.max_open_positions = 2
        /\ daily_pnl > 0 - risk_params.max_daily_loss
        /\ order_seq = 1

\* C6: while a Position is open, a signal for its symbol is accepted only in the
\* closing direction; a same-direction or Hold signal ends with Ok(None), no order and
\* no change of Positions, Trades or counters.
C6_OnlyClosingSignal ==
    [][\A c \in Calls :
          (calls[c].pc = "check_position" /\ calls'[c].pc # "check_position"
             /\ calls[c].symbol \in DOMAIN positions)
                => LET side == positions[calls[c].symbol].side
                       closes == \/ side = "Buy" /\ calls[c].action = "Sell"
                                 \/ side = "Sell" /\ calls[c].action = "Buy"
                   IN  /\ closes => calls'[c].pc = "calculate_order_size"
                       /\ ~closes => calls'[c].pc = "return" /\ calls'[c].ret = "Ok(None)"
                       /\ NoEffect]_vars

\* C6 witness: a Hold and a same-direction signal for a held symbol: here a Sell signal
\* for a short Position has been ignored.
C6_Witness ==
    \E c \in Calls :
        /\ calls[c].pc = "return" /\ calls[c].ret = "Ok(None)"
        /\ calls[c].action = "Sell"
        /\ calls[c].symbol \in DOMAIN positions
        /\ positions[calls[c].symbol].side = "Sell"


\* the Trade whose exit is the order with this id, 0 if there is none
TradeClosedBy(ledger, order_id) ==
    LET closed == { i \in 1..Len(ledger) : ledger[i].exit_order_id = Some(order_id) }
    IN  IF closed = {} THEN 0 ELSE CHOOSE i \in closed : TRUE

\* (X - E) * Q for a long, (E - X) * Q for a short
RoundTripPnl(side, E, X, Q) == IF side = "Buy" THEN (X - E) * Q ELSE (E - X) * Q

C8_MonitorCloseLikeSignalClose ==
    [][(monitor.pc = "record_trade" /\ monitor'.pc # "record_trade"
          /\ monitor.status = "Filled"
          /\ FindOpenTrade(trades, Head(monitor.to_close).symbol) # 0)
          => LET position == Head(monitor.to_close)
                 i == FindOpenTrade(trades, position.symbol)
                 X == Unwrap(monitor.average_price)
                 realized == RoundTripPnl(position.side, position.entry_price, X,
                                          position.quantity)
             IN  /\ trades'[i].pnl = Some(realized)
                 /\ daily_pnl' = daily_pnl + realized
                 /\ position.symbol \notin DOMAIN positions]_vars

\* C9: a failed place_order writes nothing: the step on which execute_signal gets the
\* error, and the step on which the Position Monitor gets it, leave the Position map,
\* the Trade ledger, daily_pnl and trade_count as they were; the call ends with the
\* error, the monitor goes on, and the Position the order was for is still there for a
\* later signal or tick.
C9_FailedOrderNoWrite ==
    [][/\ \A c \in Calls :
             (calls[c].pc = "place_order" /\ calls'[c].ret = "Err")
                => /\ UNCHANGED << positions, trades, daily_pnl, trade_count >>
                   /\ calls'[c].pc = "return"
       /\ (monitor.pc = "await_order" /\ monitor'.pc \in {"sleep", "place_order"})
                => /\ UNCHANGED << positions, trades, daily_pnl, trade_count >>
                   /\ monitor'.to_close = Tail(monitor.to_close)]_vars

\* C9 witness: the order of a closing signal has failed: the call ended with the
\* error, the Position and its open Trade are as they were.
C9_Witness ==
    \E c \in Calls :
        /\ calls[c].pc = "return" /\ calls[c].ret = "Err"
        /\ calls[c].symbol \in DOMAIN positions
        /\ calls[c].action \in OrderSides \ {positions[calls[c].symbol].side}
        /\ order_seq = 2
        /\ Len(trades) = 1 /\ trades[1].exit_order_id = None
        /\ daily_pnl = 0 /\ trade_count = 1

\* C10: a response whose status is neither Filled nor PartiallyFilled is not acted on,
\* by execute_signal or by the Position Monitor: the step that receives it and the
\* steps that follow from it change no Position, Trade, daily_pnl or trade_count.
C10_UnfilledNotActedOn ==
    [][/\ \A c \in Calls :
             (calls[c].pc = "place_order" /\ calls'[c].pc = "return")
                => UNCHANGED << positions, trades, daily_pnl, trade_count >>
       /\ (monitor.pc = "await_order" /\ monitor'.pc = "record_trade"
             /\ ~(monitor'.status \in {"Filled", "PartiallyFilled"}))
                => UNCHANGED << positions, trades, daily_pnl, trade_count >>
       /\ (monitor.pc = "record_trade" /\ monitor'.pc # "record_trade"
             /\ ~(monitor.status \in {"Filled", "PartiallyFilled"}))
                => UNCHANGED << positions, trades, daily_pnl, trade_count >>]_vars


\* the price of Position p is at or beyond one of its two levels
AtLevel(p) ==
    /\ IsSome(p.stop_loss) /\ IsSome(p.take_profit)
    /\ \/ p.side = "Buy" /\ p.current_price <= Unwrap(p.stop_loss)
       \/ p.side = "Buy" /\ p.current_price >= Unwrap(p.take_profit)
       \/ p.side = "Sell" /\ p.current_price >= Unwrap(p.stop_loss)
       \/ p.side = "Sell" /\ p.current_price <= Unwrap(p.take_profit)

\* C11: the Position Monitor submits a close order only for a Position whose price was
\* at or beyond a level when the tick evaluated it (long: current_price <= stop_loss or
\* >= take_profit; short: >= stop_loss or <= take_profit): a tick collects exactly the
\* Positions at a level, and each order the monitor submits is a Market order on the
\* opposite side for the full quantity of such a Position; a Position strictly between
\* its levels gets no close order.
C11_CloseOnlyAtLevel ==
    [][/\ (monitor.pc = "sleep" /\ monitor'.pc = "place_order")
             => /\ \A i \in 1..Len(monitor'.to_close) :
                      /\ AtLevel(monitor'.to_close[i])
                      /\ monitor'.to_close[i].symbol \in DOMAIN positions
                      /\ monitor'.to_close[i] = positions[monitor'.to_close[i].symbol]
                /\ \A s \in DOMAIN positions :
                      AtLevel(positions[s])
                         <=> \E i \in 1..Len(monitor'.to_close) : monitor'.to_close[i].symbol = s
       /\ (monitor.pc = "place_order" /\ monitor'.pc = "await_order")
             => LET p == Head(monitor.to_close)
                    o == Unwrap(monitor'.order)
                IN  /\ AtLevel(p)
                    /\ o.symbol = p.symbol
                    /\ o.quantity = p.quantity
                    /\ o.order_type = "Market"
                    /\ p.side = "Buy" => o.side = "Sell"
                    /\ p.side = "Sell" => o.side = "Buy"
                    /\ order_seq' = order_seq + 1
       /\ (monitor' # monitor /\ order_seq' # order_seq) => monitor.pc = "place_order"]_vars

\* C11 witness: the monitor has submitted a Buy for 2 to close a short of 2 whose price
\* 120 is beyond its stop-loss 105.
C11_Witness ==
    /\ monitor.pc = "await_order"
    /\ Head(monitor.to_close).side = "Sell"
    /\ Head(monitor.to_close).current_price = 120
    /\ Head(monitor.to_close).stop_loss = Some(105)
    /\ Head(monitor.to_close).quantity = 2
    /\ Unwrap(monitor.order).side = "Buy" /\ Unwrap(monitor.order).quantity = 2


\* C12: a Position whose price has reached its stop-loss or take-profit level does not
\* stay in the Position map at that level for ever: with the monitor task scheduled
\* fairly and the exchange accepting the close order, the Position is eventually
\* removed (or its price has left the level).
C12_EventuallyClosed ==
    \A s \in Symbols : []<>~(s \in DOMAIN positions /\ AtLevel(positions[s]))

\* C12 witness: the exchange has accepted the close order for a long whose price 120
\* had reached its take-profit 110, and the monitor has removed the Position.
C12_Witness ==
    /\ monitor.pc = "record_trade"
    /\ Head(monitor.to_close).side = "Buy"
    /\ Head(monitor.to_close).current_price = 120
    /\ Head(monitor.to_close).take_profit = Some(110)
    /\ Head(monitor.to_close).symbol \notin DOMAIN positions


\* a step of the market-data consumer: the Position map changes and neither a call nor
\* the monitor moves
MarketDataStep == positions' # positions /\ calls' = calls /\ monitor' = monitor

\* C13: a market-data update for symbol S changes only current_price and unrealized_pnl
\* of S's Position: no Position is added or removed, the Positions of other symbols,
\* the Trade ledger, daily_pnl, trade_count and the risk parameters are unchanged, and
\* so are S's symbol, side, entry_price, quantity, stop_loss and take_profit.
C13_MarketDataFrame ==
    [][MarketDataStep
         => /\ DOMAIN positions' = DOMAIN positions
            /\ \E S \in DOMAIN positions :
                  /\ \A t \in DOMAIN positions \ {S} : positions'[t] = positions[t]
                  /\ positions'[S] =
                        [positions[S] EXCEPT !.current_price = positions'[S].current_price,
                                             !.unrealized_pnl = positions'[S].unrealized_pnl]
            /\ UNCHANGED << trades, daily_pnl, trade_count, risk_params, order_seq >>]_vars

\* C13 witness: two Positions are open; market data has moved the price of BTCUSDT to
\* 120 and left ETHUSDT's Position as it was opened.
C13_Witness ==
    /\ DOMAIN positions = {"BTCUSDT", "ETHUSDT"}
    /\ positions["BTCUSDT"].entry_price = 100 /\ positions["BTCUSDT"].current_price = 120
    /\ positions["ETHUSDT"].entry_price = 100 /\ positions["ETHUSDT"].current_price = 100
    /\ Len(trades) = 2 /\ trade_count = 2 /\ daily_pnl = 0

\* unrealized_pnl is the PnL of p at its current_price
PnlConsistent(p) ==
    /\ p.side = "Buy" => p.unrealized_pnl = (p.current_price - p.entry_price) * p.quantity
    /\ p.side = "Sell" => p.unrealized_pnl = (p.entry_price - p.current_price) * p.quantity

\* C14: every Position in the map, and so every Position the monitor's tick clones
\* under the positions lock, has unrealized_pnl = (current_price - entry_price) *
\* quantity for a long and (entry_price - current_price) * quantity for a short: the
\* price and the PnL of a market-data tick are written in one critical section.
C14_PnlConsistent ==
    /\ \A s \in DOMAIN positions : PnlConsistent(positions[s])
    /\ \A i \in 1..Len(monitor.to_close) : PnlConsistent(monitor.to_close[i])

\* C14 witness: the monitor's snapshot holds a short of 2 entered at 100 whose price
\* is 120 and whose unrealized_pnl is -40.
C14_Witness ==
    /\ monitor.pc = "place_order"
    /\ Head(monitor.to_close).side = "Sell"
    /\ Head(monitor.to_close).quantity = 2
    /\ Head(monitor.to_close).entry_price = 100
    /\ Head(monitor.to_close).current_price = 120
    /\ Head(monitor.to_close).unrealized_pnl = 0 - 40


\* a step on which the gate has handled a signal
GateStep == gate_out' # gate_out \/ sent_orders' # sent_orders

\* the last order the gate sent: the last forwarded non-Hold signal
LastSent == sent_orders[Len(sent_orders)]

\* fewer than signal_cooldown seconds have passed since the last forwarded non-Hold
\* signal
GateCoolingDown == sent_orders # << >> /\ now - LastSent.time < SignalCooldown

\* C15: a Hold signal is dropped exactly when fewer than signal_cooldown (300) seconds
\* have passed since the last forwarded non-Hold signal, and is forwarded otherwise;
\* forwarded or dropped it sends no order and does not move the start of the cooldown
\* window, while each forwarded Buy or Sell signal restarts the window at the present
\* second.
C15_HoldGate ==
    [][GateStep
         => LET signal == Unwrap(gate_out') IN
            /\ signal.action = "Hold"
                  => /\ signal.forwarded <=> ~GateCoolingDown
                     /\ last_signal_time' = last_signal_time
                     /\ sent_orders' = sent_orders
            /\ (signal.action # "Hold" /\ signal.forwarded)
                  => /\ last_signal_time' = now
                     /\ Len(sent_orders') = Len(sent_orders) + 1
                     /\ sent_orders'[Len(sent_orders')].time = now]_vars

\* C15 witness: a Hold was dropped 299 seconds after a forwarded Buy, the last second
\* of the window.
C15_Witness ==
    /\ gate_out # None
    /\ Unwrap(gate_out).action = "Hold" /\ ~Unwrap(gate_out).forwarded
    /\ Len(sent_orders) = 1 /\ sent_orders[1].side = "Buy"
    /\ now - sent_orders[1].time = 299
    /\ last_signal_time = sent_orders[1].time

\* C16: a Buy or Sell signal opposite to the last forwarded non-Hold signal is always
\* forwarded and its order sent, inside the cooldown window as well as outside.
C16_ReversalForwarded ==
    [][GateStep
         => LET signal == Unwrap(gate_out') IN
            (signal.action \in OrderSides /\ sent_orders # << >>
               /\ signal.action # LastSent.side)
                  => /\ signal.forwarded
                     /\ sent_orders' =
                           Append(sent_orders, GateOrder(signal.symbol, signal.action, now))]_vars

\* C16 witness: a Sell for BTCUSDT was forwarded in the same second as the Buy for
\* BTCUSDT that started the window.
C16_Witness ==
    /\ Len(sent_orders) = 2
    /\ sent_orders[1].symbol = "BTCUSDT" /\ sent_orders[1].side = "Buy"
    /\ sent_orders[2].symbol = "BTCUSDT" /\ sent_orders[2].side = "Sell"
    /\ sent_orders[2].time = sent_orders[1].time
    /\ now = sent_orders[2].time
    /\ Unwrap(gate_out).forwarded /\ Unwrap(gate_out).action = "Sell"

\* C17: inside the cooldown window a repeated Buy or Sell signal is not executed again:
\* no two consecutive orders of the gate are for the same symbol and side with fewer
\* than signal_cooldown seconds between them.
C17_OneOrderPerWindow ==
    \A i \in 1..(Len(sent_orders) - 1) :
        ~(/\ sent_orders[i + 1].symbol = sent_orders[i].symbol
          /\ sent_orders[i + 1].side = sent_orders[i].side
          /\ sent_orders[i + 1].time - sent_orders[i].time < SignalCooldown)

\* symbol S is Idle: no Buy or Sell signal for S was forwarded in the last
\* signal_cooldown seconds
Idle(S) ==
    \A i \in 1..Len(sent_orders) :
        sent_orders[i].symbol = S => now - sent_orders[i].time >= SignalCooldown

\* C18: cooldown is kept per instrument: a Hold signal for a symbol that is Idle is
\* forwarded, whatever was forwarded for another symbol.
C18_CooldownPerSymbol ==
    [][GateStep
         => LET signal == Unwrap(gate_out') IN
            (signal.action = "Hold" /\ Idle(signal.symbol)) => signal.forwarded]_vars


\* the quote amount, in hundredths, the order is sized from: max_order_size * confidence
\* capped by the free quote balance, or by max_order_size / 2 when the balance query
\* failed
CappedSize100(z) ==
    LET size100 == z.risk_params.max_order_size * z.confidence
        balance100 == IF IsSome(z.balance) THEN Unwrap(z.balance) * 100
                      ELSE z.risk_params.max_order_size * 50
    IN  IF size100 <= balance100 THEN size100 ELSE balance100

\* C19 as claimed: the quantity is max_order_size * confidence capped by
\* available_quote_balance / signal.price, truncated to 5 fractional digits.
C19_QuantityAsClaimed ==
    (sizing # None /\ IsSome(sizing.quantity) /\ IsSome(sizing.balance))
       => LET q == Unwrap(sizing.quantity)
              size100p == sizing.risk_params.max_order_size * sizing.confidence * sizing.price
              balance100 == Unwrap(sizing.balance) * 100
              m == IF size100p <= balance100 THEN size100p ELSE balance100
          IN  q * sizing.price <= m * 1000 /\ m * 1000 < (q + 1) * sizing.price

\* C19 amended: the quantity is the quote amount min(max_order_size * confidence, free
\* quote balance) divided by signal.price (the balance being max_order_size / 2 when
\* the balance query fails), truncated toward zero to 5 fractional digits: in units of
\* 10^-5 it is the largest integer not above the exact quotient.
C19_OrderQuantity ==
    (sizing # None /\ IsSome(sizing.quantity))
       => LET q == Unwrap(sizing.quantity)
              capped100 == CappedSize100(sizing)
          IN  /\ q >= 0
              /\ q * sizing.price * 100 <= capped100 * QuantityPrecision
              /\ capped100 * QuantityPrecision < (q + 1) * sizing.price * 100

\* C19 witness: max_order_size 100 at full confidence, price 3, free balance 40: the
\* balance caps the order and 40 / 3 is truncated to 13.33333.
C19_Witness ==
    /\ sizing # None
    /\ sizing.risk_params.max_order_size = 100 /\ sizing.confidence = 100
    /\ sizing.price = 3 /\ sizing.balance = Some(40)
    /\ sizing.quantity = Some(1333333)


\* C20: after any sequence of update_parameter calls the fast period of the SMA and of
\* the MACD strategy is below the slow period, and the RSI strategy's oversold threshold
\* is below its overbought threshold.
C20_OrderingKept ==
    /\ sma.fast_period < sma.slow_period
    /\ macd.fast_period < macd.slow_period
    /\ FloatLt(rsi.oversold_threshold, rsi.overbought_threshold)

\* the periods alone are kept ordered, and the fast periods at 2 or more
C20_PeriodsOrdered ==
    /\ 2 <= sma.fast_period /\ sma.fast_period < sma.slow_period
    /\ 2 <= macd.fast_period /\ macd.fast_period < macd.slow_period

\* an update_parameter call that returns an error leaves every parameter as it was
C20_RejectedKeepsConfiguration ==
    [][(update_result' # None /\ Unwrap(update_result').result = "Err")
          => UNCHANGED << sma, macd, rsi >>]_vars

\* the sum of the n prices ending at index i
RECURSIVE WindowSum(_, _, _)
WindowSum(prices, i, n) ==
    IF n = 0 THEN 0 ELSE prices[i] + WindowSum(prices, i - 1, n - 1)

\* the fast average of the prices ending at index i is above (below) the slow average
FastAbove(prices, i) ==
    WindowSum(prices, i, sma.fast_period) * sma.slow_period
        > WindowSum(prices, i, sma.slow_period) * sma.fast_period
FastBelow(prices, i) ==
    WindowSum(prices, i, sma.fast_period) * sma.slow_period
        < WindowSum(prices, i, sma.slow_period) * sma.fast_period

\* the fast average is below the slow one at every index before t and above it from t on
TransitionAt(prices, t) ==
    /\ t \in (sma.slow_period + 1) .. Len(prices)
    /\ \A i \in sma.slow_period .. (t - 1) : FastBelow(prices, i)
    /\ \A i \in t .. Len(prices) : FastAbove(prices, i)

\* analyze on the prefix of length n returned the signal Buy / returned no signal
BuyAt(n) == analysis.signals[n] = Ok(Some("Buy"))
NoSignalAt(n) == analysis.signals[n] = Ok(None)

\* C21: in a history whose fast SMA moves from below to above the slow SMA exactly once,
\* analyze signals Buy on the prefix ending at the transition index, and gives no signal
\* on any other prefix of the required length.
C21_BuyAtTransition ==
    \A t \in 1 .. Len(analysis.prices) :
        TransitionAt(analysis.prices, t)
           => /\ BuyAt(t)
              /\ \A n \in (sma.slow_period + 2) .. Len(analysis.prices) :
                     n # t => NoSignalAt(n)

\* the same for the transitions at an index of slow_period + 2 or more
C21_BuyAtLaterTransition ==
    \A t \in (sma.slow_period + 2) .. Len(analysis.prices) :
        TransitionAt(analysis.prices, t)
           => /\ BuyAt(t)
              /\ \A n \in (sma.slow_period + 2) .. Len(analysis.prices) :
                     n # t => NoSignalAt(n)

\* the sum of the realized PnL of the finalized records of a ledger
RECURSIVE RealizedSum(_)
RealizedSum(ledger) ==
    IF ledger = << >> THEN 0
    ELSE (IF IsSome(Head(ledger).pnl) THEN Unwrap(Head(ledger).pnl) ELSE 0)
            + RealizedSum(Tail(ledger))

\* a step keeps every record of the ledger in its place, at most giving an open record
\* its exit
LedgerGrows ==
    /\ Len(trades') >= Len(trades)
    /\ \A i \in 1 .. Len(trades) :
          \/ trades'[i] = trades[i]
          \/ /\ trades[i].exit_order_id = None
             /\ IsSome(trades'[i].exit_order_id)
             /\ [trades'[i] EXCEPT !.exit_order_id = None, !.pnl = None] = trades[i]

\* no call and no close by the Position Monitor is under way
EngineQuiet ==
    /\ \A c \in Calls : calls[c].pc \in {"idle", "return"}
    /\ monitor.to_close = << >>

\* a step that changes daily_pnl finalizes a record with the amount, or follows the
\* call's own finalization of one with the amount
DailyPnlWithLedgerWrite ==
    daily_pnl' # daily_pnl
       => \E i \in 1 .. Len(trades') :
             /\ trades'[i].pnl = Some(daily_pnl' - daily_pnl)
             /\ \/ trades[i].pnl = None
                \/ \E c \in Calls : /\ Moves(c, {"update_daily_pnl"}, "return")
                                    /\ trades[i].exit_order_id = Some(calls[c].order_id)

\* the ledger only grows
C22_AppendOnly == [][LedgerGrows]_vars

\* trade_count is the number of records of the ledger
C22_CounterIsLedgerLength == [](trade_count = Len(trades))

\* daily_pnl is the sum of the realized PnL of the finalized records whenever no
\* operation is under way
C22_DailyPnlIsLedgerSum == [](EngineQuiet => daily_pnl = RealizedSum(trades))

\* no step changes daily_pnl without the ledger write the amount belongs to
C22_NoUpdateWithoutWrite == [][DailyPnlWithLedgerWrite]_vars

\* C22: the Trade ledger only grows, trade_count is the number of its records, daily_pnl
\* is the sum of the realized PnL of its finalized records whenever no operation is
\* under way, and no step changes daily_pnl without the ledger write the amount
\* belongs to.
C22_LedgerAggregates ==
    /\ C22_AppendOnly
    /\ C22_CounterIsLedgerLength
    /\ C22_DailyPnlIsLedgerSum
    /\ C22_NoUpdateWithoutWrite

\* C23: a close order that is pending at the exchange holds up no other Position: while
\* the Position Monitor waits for the answer to one close order, no Position it has
\* found at its level is left without its own close order submitted.
C23_NoCloseWaitsBehindPending ==
    monitor.pc = "await_order" => Len(monitor.to_close) = 1

\* this step takes on new work: the Position Monitor collects Positions to close, or
\* execute_signal takes a signal
TakesNewWork ==
    \/ monitor.pc = "sleep" /\ monitor'.pc = "place_order"
    \/ \E c \in Calls : calls[c].pc = "idle" /\ calls'[c].pc # "idle"

\* C24: once the shutdown has begun, the Position Monitor and the signal consumer take
\* on no new work.
C24_NoNewWorkAfterShutdown ==
    [][shutdown # "running" => ~TakesNewWork]_vars

\* the larger of two numbers
Max(a, b) == IF a >= b THEN a ELSE b

\* the prices an indicator cannot do without: the period for a moving average; for the
\* MACD the longer of its two averages plus the signal period
RequiredLength(call) ==
    IF call.function = "calculate_macd"
    THEN Max(call.periods[1], call.periods[2]) + call.periods[3]
    ELSE call.periods[1]

\* C25: an indicator function called on a series shorter than it requires returns the
\* InsufficientData error: it does not panic and returns no empty or partial result.
C25_ShortInputIsError ==
    (analysis # None /\ analysis.call # None)
       => LET call == Unwrap(analysis.call)
          IN  Len(analysis.prices) < RequiredLength(call)
                 => call.result = Err("InsufficientData")

\* C26: calculate_macd aligns its series by price index.  fast_ema[j] belongs to the
\* price at index j + fast_period - 1 and slow_ema[i] to the one at i + slow_period - 1,
\* so macd_line[i] is fast_ema[i + slow_period - fast_period] - slow_ema[i]; signal_line
\* is the EMA of macd_line, whose k-th value belongs to macd_line[k + signal_period - 1];
\* every histogram value is the macd_line value minus the signal_line value of the same
\* index, and the last one is last(macd_line) - last(signal_line).
C26_MacdAligned ==
    (analysis # None /\ analysis.call # None)
       => LET call == Unwrap(analysis.call)
              fast_period == call.periods[1]
              slow_period == call.periods[2]
              signal_period == call.periods[3]
              prices == Floats(analysis.prices)
              fast_ema == CalculateEma(prices, fast_period).value
              slow_ema == CalculateEma(prices, slow_period).value
              r == call.result.value
          IN  (call.function = "calculate_macd" /\ call.result.ok)
                 => /\ Len(r.macd_line) = Len(slow_ema)
                    /\ \A i \in 1 .. Len(r.macd_line) :
                          r.macd_line[i] =
                             FracSub(fast_ema[i + slow_period - fast_period], slow_ema[i])
                    /\ r.signal_line = CalculateEma(r.macd_line, signal_period).value
                    /\ Len(r.histogram) = Len(r.signal_line)
                    /\ \A k \in 1 .. Len(r.histogram) :
                          r.histogram[k] =
                             FracSub(r.macd_line[k + signal_period - 1], r.signal_line[k])
                    /\ r.histogram[Len(r.histogram)] =
                          FracSub(r.macd_line[Len(r.macd_line)],
                                  r.signal_line[Len(r.signal_line)])

\* the alignment of macd_line and signal_line alone
C26_LinesAligned ==
    (analysis # None /\ analysis.call # None)
       => LET call == Unwrap(analysis.call)
              prices == Floats(analysis.prices)
              fast_ema == CalculateEma(prices, call.periods[1]).value
              slow_ema == CalculateEma(prices, call.periods[2]).value
              r == call.result.value
          IN  (call.function = "calculate_macd" /\ call.result.ok)
                 => /\ Len(r.macd_line) = Len(slow_ema)
                    /\ \A i \in 1 .. Len(r.macd_line) :
                          r.macd_line[i] =
                             FracSub(fast_ema[i + call.periods[2] - call.periods[1]],
                                     slow_ema[i])
                    /\ r.signal_line = CalculateEma(r.macd_line, call.periods[3]).value

\* the local maxima (minima) of a window
LocalPeaks(prices) ==
    { i \in 2 .. Len(prices) - 1 : prices[i] > prices[i - 1] /\ prices[i] > prices[i + 1] }
LocalTroughs(prices) ==
    { i \in 2 .. Len(prices) - 1 : prices[i] < prices[i - 1] /\ prices[i] < prices[i + 1] }

\* a and b are consecutive elements of a set of indices
Consecutive(S, a, b) == a \in S /\ b \in S /\ a < b /\ S \cap ((a + 1) .. (b - 1)) = {}

\* the patterns that exist in a window for a detector
PatternsIn(detector, prices) ==
    IF detector = "double_top"
    THEN { DoubleTopAt(prices, a, b) :
              a \in LocalPeaks(prices), b \in LocalPeaks(prices) } \ {None}
    ELSE IF detector = "double_bottom"
    THEN { DoubleBottomAt(prices, a, b) :
              a \in LocalTroughs(prices), b \in LocalTroughs(prices) } \ {None}
    ELSE { HeadAndShouldersAt(prices, a, b, c) :
              a \in LocalPeaks(prices), b \in LocalPeaks(prices),
              c \in LocalPeaks(prices) } \ {None}

\* the extrema of a pattern are consecutive extrema of the window
OfConsecutiveExtrema(detector, prices, pattern) ==
    LET p == Unwrap(pattern) IN
    IF detector = "double_top" THEN Consecutive(LocalPeaks(prices), p.first, p.second)
    ELSE IF detector = "double_bottom"
    THEN Consecutive(LocalTroughs(prices), p.first, p.second)
    ELSE /\ Consecutive(LocalPeaks(prices), p.left_shoulder, p.head)
         /\ Consecutive(LocalPeaks(prices), p.head, p.right_shoulder)

QualifyingPatterns(detector, prices) ==
    { pattern \in PatternsIn(detector, prices) :
         OfConsecutiveExtrema(detector, prices, pattern) }

\* C27: a detector returns InsufficientData exactly for a window shorter than
\* min_candles; otherwise it returns None exactly when no consecutive pair (triple) of
\* local extrema of the window qualifies, and a returned pattern is one of the
\* qualifying ones.
C27_PatternExactlyWhenPresent ==
    (analysis # None /\ analysis.detected # None)
       => LET run == Unwrap(analysis.detected)
              qualifying == QualifyingPatterns(run.detector, analysis.prices)
          IN  IF Len(analysis.prices) < PatternMinCandles
              THEN run.result = Err("InsufficientData")
              ELSE /\ run.result.ok
                   /\ run.result.value = None <=> qualifying = {}
                   /\ run.result.value # None => run.result.value \in qualifying

\* what holds of every detector: the error exactly for a short window, and every
\* returned pattern qualifies
C27_ReturnedPatternQualifies ==
    (analysis # None /\ analysis.detected # None)
       => LET run == Unwrap(analysis.detected)
              qualifying == QualifyingPatterns(run.detector, analysis.prices)
          IN  IF Len(analysis.prices) < PatternMinCandles
              THEN run.result = Err("InsufficientData")
              ELSE /\ run.result.ok
                   /\ run.result.value # None => run.result.value \in qualifying

\* the close prices of the last k updates, oldest first
RecentCloses(k) ==
    LET n == Len(market.updates)
    IN  [i \in 1 .. k |-> market.updates[n - k + i].close_price]

HistoryOfRecentUpdates ==
    LET n == Len(market.updates)
        kept == IF n < market.max_history_size THEN n ELSE market.max_history_size
    IN  /\ Len(GetPriceHistory) <= market.max_history_size
        /\ GetPriceHistory = RecentCloses(kept)
        /\ n > 0 => GetCurrentData = market.updates[n]

\* C28: after any sequence of updates, the price history is the close prices of the
\* most recent updates, oldest first, never longer than max_history_size whatever
\* the size, and the current data is the last update.
C28_HistoryOfRecentUpdates == market # None => HistoryOfRecentUpdates

\* what holds: the same for every manager of size at least 1, and for the manager of
\* market_data_manager.rs at every size
C28_HistoryOfPositiveSize ==
    (market # None /\ (market.max_history_size >= 1
                          \/ market.implementation = "market_data_manager"))
       => HistoryOfRecentUpdates

\* the history analyze needs: max(rsi_period, ema_slow_period)
NeededHistory ==
    Max(analysis.config.rsi_period, analysis.config.ema_slow_period)

\* the last price is 2% below the open price
TwoPercentDrop ==
    /\ analysis.market_data.open_price > 0
    /\ analysis.market_data.last_price * 100 = analysis.market_data.open_price * 98

AnalyzeReturned == analysis # None /\ analysis.analyzed # None

\* C29: with a history of at least max(rsi_period, ema_slow_period) prices and a last
\* price 2% below the open price, analyze returns a Buy signal; with a shorter
\* history it returns no signal.
C29_BuyOnTwoPercentDrop ==
    AnalyzeReturned
       => LET signal == Unwrap(analysis.analyzed)
          IN  IF Len(analysis.prices) < NeededHistory THEN signal = None
              ELSE TwoPercentDrop => (signal # None /\ Unwrap(signal).action = "Buy")

\* what holds: no signal exactly for a shorter history, and a Buy only for a drop of
\* more than 2%
C29_SignalExactlyWithHistory ==
    AnalyzeReturned
       => LET signal == Unwrap(analysis.analyzed)
          IN  /\ signal = None <=> Len(analysis.prices) < NeededHistory
              /\ (signal # None /\ Unwrap(signal).action = "Buy")
                    => analysis.market_data.last_price * 100
                          < analysis.market_data.open_price * 98

\* call c takes a step of an execute_signal whose signal is Hold
HoldStep(c) ==
    /\ calls'[c] # calls[c]
    /\ IF calls[c].pc = "idle" THEN calls'[c].action = "Hold" ELSE calls[c].action = "Hold"

\* C30: no step of an execute_signal call for a Hold signal submits an order or
\* changes Positions, Trades, daily PnL or the trade counter.
C30_HoldChangesNothing ==
    [][\A c \in Calls : HoldStep(c) => (order_seq' = order_seq /\ UNCHANGED engine)]_vars

\* a Hold has returned Ok(None) while a Position is open for its symbol, and another
\* Hold has passed the risk checks
C30_Witness ==
    \E c \in Calls, d \in Calls :
       /\ calls[c].pc = "return" /\ calls[c].action = "Hold" /\ calls[c].ret = "Ok(None)"
       /\ ContainsKey(positions, calls[c].symbol)
       /\ calls[d].pc = "get_balance" /\ calls[d].action = "Hold"
       /\ ~ContainsKey(positions, calls[d].symbol)

\* the SignalProcessor of main.rs: a Hold signal sends no order
GateHoldSendsNothing ==
    [][(now' = now /\ gate_out' # None /\ Unwrap(gate_out').action = "Hold")
          => sent_orders' = sent_orders]_vars

\* the close orders outstanding at the exchange for the Position of a symbol: the
\* monitor's, and those of calls whose signal closes the Position
CloseOrdersInFlight(symbol) ==
    (IF monitor.pc = "await_order" /\ Head(monitor.to_close).symbol = symbol
     THEN {monitor.order_id} ELSE {})
    \cup { calls[c].order_id : c \in { k \in Calls :
              /\ calls[k].pc = "place_order"
              /\ calls[k].symbol = symbol
              /\ IsClosingSignal(positions[symbol].side, calls[k].action) } }

\* C31: for an open Position at most one close order is submitted: the monitor and a
\* closing signal never both have a close order for it at the exchange.
C31_OneCloseOrder ==
    \A symbol \in DOMAIN positions : Cardinality(CloseOrdersInFlight(symbol)) <= 1

\* the Position the monitor's close order in flight was built for
MonitorSnapshot == Head(monitor.to_close)

\* what a Position keeps for life: market data only moves its price and its PnL
SamePosition(p, q) ==
    /\ p.symbol = q.symbol /\ p.side = q.side /\ p.quantity = q.quantity
    /\ p.entry_price = q.entry_price
    /\ p.stop_loss = q.stop_loss /\ p.take_profit = q.take_profit

\* the open Trade of the symbol, if there is one, was entered by an order older than
\* the monitor's close order
OpenTradeOlderThanClose ==
    LET i == FindOpenTrade(trades, MonitorSnapshot.symbol)
    IN  i # 0 => trades[i].entry_order_id < monitor.order_id

\* the monitor's close order has returned and the Position is removed
MonitorRemoves ==
    /\ monitor.pc = "await_order" /\ monitor'.pc = "record_trade"
    /\ ContainsKey(positions, MonitorSnapshot.symbol)

\* the monitor finalizes a Trade
MonitorFinalizes == monitor.pc = "record_trade" /\ trades' # trades

\* C32: when the monitor's close order completes, the Position removed is the one
\* the monitor evaluated, and the Trade finalized is that Position's entry Trade: never
\* a Position, or the Trade of a Position, opened after the snapshot was taken.
C32_MonitorClosesItsSnapshot ==
    [][/\ MonitorRemoves =>
            /\ SamePosition(positions[MonitorSnapshot.symbol], MonitorSnapshot)
            /\ OpenTradeOlderThanClose
       /\ MonitorFinalizes => OpenTradeOlderThanClose]_vars

\* the Trades of a symbol that have no exit_order_id
OpenTrades(symbol) ==
    { i \in 1 .. Len(trades) :
         trades[i].symbol = symbol /\ trades[i].exit_order_id = None }

\* C33: whenever no engine operation is in progress, each symbol with a Position has
\* exactly one Trade without exit, and a symbol without a Position has none.
C33_OpenTradePerPosition ==
    EngineQuiet =>
       \A symbol \in Symbols :
          Cardinality(OpenTrades(symbol)) = IF ContainsKey(positions, symbol) THEN 1 ELSE 0

\* every thread is inside lock() on a mutex whose holder is off its thread: no thread
\* is left to poll a holder, so no guard is ever dropped
AllThreadsBlocked ==
    /\ BusyThreads = runtime.workers
    /\ \A t \in RuntimeTasks : Task(t).on_thread => Blocked(t)

\* C34: no interleaving of execute_signal calls, update_risk_parameters, the consumer
\* and the monitor reaches a state in which tasks wait on the engine's locks for ever
C34_NoTaskWaitsForever == runtime # None => ~AllThreadsBlocked

\* the lock order alone: no task holds a lock that the holder of the lock it waits for
\* is itself waiting on
C34_NoLockCycle ==
    runtime # None =>
        \A t, u \in RuntimeTasks :
            ~(/\ Blocked(t) /\ Blocked(u)
              /\ runtime.locks[AtOp(t).on] = u
              /\ runtime.locks[AtOp(u).on] = t)

\* C35: the market-data consumer runs for as long as the broadcast channel is open;
\* falling behind the buffer does not end it
C35_ConsumerOutlivesLag ==
    broadcast # None => (broadcast.consumer = "terminated" => ~broadcast.open)

\* a price that crosses the Position's take-profit level was broadcast on the open
\* channel, and the consumer that would have written it is gone
CrossingPriceLost ==
    /\ broadcast.open
    /\ broadcast.consumer = "terminated"
    /\ ContainsKey(positions, BroadcastSymbol)
    /\ ShouldClose(CalculatePnl(positions[BroadcastSymbol], broadcast.last_sent))
    /\ ~ShouldClose(positions[BroadcastSymbol])

C35_CrossingPriceWritten == broadcast # None => ~CrossingPriceLost

\* the loops that go on evaluating: not ended, and either never stopped or past the
\* `while` test again since they were stopped
LiveLoops ==
    { i \in DOMAIN processor.loops :
        /\ processor.loops[i].state # "ended"
        /\ ~processor.loops[i].stopped \/ processor.loops[i].survived }

\* C36: at most one evaluation loop is alive: a loop that stop() stopped does not go on
\* after a later start()
C36_OneEvaluationLoop == processor # None => Cardinality(LiveLoops) <= 1

\* start while running returns the error and spawns nothing
StartWhileRunningRefused ==
    (processor # None /\ processor.running /\ StartProcessor)
        => /\ processor'.loops = processor.loops
           /\ ~Unwrap(processor'.start_result).ok

C36_StartWhileRunning == [][StartWhileRunningRefused]_vars

\* the calls whose fill is about to close the Position of their symbol
ClosingCalls ==
    { c \in Calls : /\ calls[c].pc = "close_position"
                    /\ ContainsKey(positions, calls[c].symbol) }

\* C37: the order of a signal that closes a Position was submitted for the Position's
\* quantity (the order quantity is in units of 1 / QuantityPrecision)
C37_CloseOrderForPositionQuantity ==
    \A c \in ClosingCalls :
        calls[c].quantity = positions[calls[c].symbol].quantity * QuantityPrecision

\* C38: no order of quantity zero is submitted
C38_NoZeroQuantityOrder ==
    \A c \in Calls : calls[c].pc = "place_order" => calls[c].quantity > 0

\* a call sized at zero creates no Position and no Trade
C38_ZeroSizeCreatesNothing ==
    \A c \in Calls : calls[c].pc \in OpeningBranch => calls[c].quantity > 0

\* C39: once start() has connected, every Buy or Sell signal the gate forwards is sent
\* through a connected client: send_order does not fail with "Not connected"
C39_ForwardedSignalsSentConnected ==
    (bot # None /\ bot.phase = "running")
       => \A i \in DOMAIN sent_orders :
             SendOrder(Unwrap(bot.exchange_for_processor), sent_orders[i]).ok

\* the client start() connected is connected while the bot runs
C39_BotExchangeConnected ==
    (bot # None /\ bot.phase = "running") => bot.exchange.connected

====
